---- MODULE Spec2Model ----
(***************************************************************************)
(* neuroPulse: EMG tremor pipeline.                                        *)
(*                                                                         *)
(*   - the WiFi firmware   (src/unnamed/part_000, "medical")               *)
(*   - the local firmware  (src/src/main.cpp, "local")                     *)
(*   - the server pipeline (src/unnamed/part_011, "server")                *)
(*   - the ML feature code (src/unnamed/part_007, "ml")                    *)
(*                                                                         *)
(* Numbers.  The sources compute in binary floating point.  The model      *)
(* computes in exact integer / rational arithmetic: a filtered sample is   *)
(* an integer count of 1/Q (Q = 10^4, the four decimals of the filter      *)
(* coefficients), a rational is a pair <<num, den>> with den > 0, square   *)
(* roots are taken to the unit below (floor).  Floating-point rounding is  *)
(* not modelled; a non-finite float (NaN, +-Infinity) is modelled by a     *)
(* value that absorbs every arithmetic operation.                          *)
(***************************************************************************)
EXTENDS Integers, Sequences, FiniteSets, TLC

(***************************************************************************)
(* Bounds of the model.  The buffer sizes of the firmwares are scaled      *)
(* down (SAMPLES 256, WINDOW_SIZE 128, BATCH_SIZE 50 in the sources); the  *)
(* ratio SAMPLES = 2 * WINDOW_SIZE of part_000 is kept.                    *)
(***************************************************************************)
WINDOW_SIZE == 2

BATCH_SIZE == 3

\* samples a device run takes
MaxSamples == 8

SAMPLES == 2 * WINDOW_SIZE

SAMPLE_RATE == 200

\* #define SAMPLE_DELAY (1000 / SAMPLE_RATE)
SAMPLE_DELAY == 1000 \div SAMPLE_RATE

\* const unsigned long SEND_INTERVAL = 2000, in ms; scaled with the buffers
SEND_INTERVAL == 2

Q == 10 ^ 4

(***************************************************************************)
(* Arithmetic helpers.                                                     *)
(***************************************************************************)
Abs(x) == IF x < 0 THEN 0 - x ELSE x

Min(x, y) == IF x < y THEN x ELSE y

Max(x, y) == IF x > y THEN x ELSE y

RECURSIVE GCD(_, _)
GCD(x, y) == IF y = 0 THEN x ELSE GCD(y, x % y)

\* a rational <<n, d>>, d > 0, in lowest terms
Rat(n, d) ==
    LET g == GCD(Abs(n), d)
    IN  IF g = 0 THEN <<0, 1>> ELSE <<n \div g, d \div g>>

RLess(p, q) == p[1] * q[2] < q[1] * p[2]

RLeq(p, q) == p[1] * q[2] <= q[1] * p[2]

RECURSIVE SqrtSearch(_, _, _)
SqrtSearch(n, lo, hi) ==
    IF lo >= hi THEN lo
    ELSE LET mid == (lo + hi + 1) \div 2
         IN  IF mid * mid <= n THEN SqrtSearch(n, mid, hi)
             ELSE SqrtSearch(n, lo, mid - 1)

\* floor of the square root of n >= 0
ISqrt(n) == SqrtSearch(n, 0, Min(n, 46340))

RECURSIVE SumTo(_, _)
\* sum of f[i] for i in 1..n; f a sequence (or function on 1..n)
SumTo(f, n) == IF n = 0 THEN 0 ELSE SumTo(f, n - 1) + f[n]


(***************************************************************************)
(* Fixed-point natural logarithm: LnQ(x) ~ Q * ln(x / Q) for x > 0, by     *)
(* halving/doubling into [1, 2) and the series                             *)
(* ln x = 2 (y + y^3/3 + y^5/5 + y^7/7), y = (x - 1) / (x + 1).            *)
(* Stands for the C library's log() used by the entropy feature.           *)
(***************************************************************************)
RECURSIVE LnReduce(_, _)
\* <<x', k>> with x = x' * 2^k and Q <= x' < 2Q
LnReduce(x, k) ==
    IF x >= 2 * Q THEN LnReduce(x \div 2, k + 1)
    ELSE IF x < Q THEN LnReduce(2 * x, k - 1)
    ELSE <<x, k>>

LnQ(x) ==
    LET r  == LnReduce(x, 0)
        y  == ((r[1] - Q) * Q) \div (r[1] + Q)
        y2 == (y * y) \div Q
        y3 == (y * y2) \div Q
        y5 == (y3 * y2) \div Q
        y7 == (y5 * y2) \div Q
    IN  2 * (y + y3 \div 3 + y5 \div 5 + y7 \div 7) + r[2] * 6931

(***************************************************************************)
(* part_000: the WiFi ("medical") firmware.                                *)
(***************************************************************************)
\* const float b[] = {0.0976, 0.1952, 0.0976}, in 1/Q
b == <<976, 1952, 976>>

\* const float a[] = {1.0000, -0.9428, 0.3333}, in 1/Q
a == <<10000, -9428, 3333>>

\* the history after the shift of applyBandpassFilter: h[1] is filterHistory[0]
ShiftHistory(h, input) == <<input, h[1], h[2]>>

\* the output of applyBandpassFilter on the shifted history, in 1/Q
FirmwareFilterOutput(h) ==
    b[1] * h[1] + b[2] * h[2] + b[3] * h[3]
        - a[2] * (h[2] - h[2]) - a[3] * (h[3] - h[3])

\* number of bins simpleFFT(data, magnitude, n) writes: k < n / 2, int division
FirmwareBins(n) == n \div 2

\* the band test without its upper limit: freq >= 3 only
InBandNoUpper(i, rate, length) == i * rate >= 3 * length

\* bin i of a window of `length` samples lies in the tremor band:
\* freq = i * rate / length, freq >= 3 && freq <= 12
InBand(i, rate, length) == i * rate >= 3 * length /\ i * rate <= 12 * length

\* the number of i in lo..n-1 with a sign change between s[i-1] and s[i]
\* (C indices; s is a sequence, s[j+1] is signal[j])
RECURSIVE ZeroCrossings(_, _)
ZeroCrossings(s, n) ==
    IF n <= 1 THEN 0
    ELSE ZeroCrossings(s, n - 1)
         + (IF (s[n-1] > 0 /\ s[n] < 0) \/ (s[n-1] < 0 /\ s[n] > 0) THEN 1 ELSE 0)

\* the scan "for (i = 1; i < nb; i++) if in band { totalPower += m[i];
\* if (m[i] > maxMagnitude) { maxMagnitude = m[i]; dominantFreqBin = i } }"
\* as a fold over bins 1..k; result <<maxMagnitude, dominantFreqBin, totalPower>>
RECURSIVE BandScan(_, _, _, _)
BandScan(mags, rate, length, k) ==
    IF k < 1 THEN <<0, 0, 0>>
    ELSE LET p == BandScan(mags, rate, length, k - 1)
             m == mags[k + 1]
         IN  IF InBand(k, rate, length)
             THEN IF m > p[1] THEN <<m, k, p[3] + m>>
                  ELSE <<p[1], p[2], p[3] + m>>
             ELSE p

\* the centroid loop without its band test: sum of i * m[i] over all bins 1..k
RECURSIVE BandWeightedAll(_, _, _, _)
BandWeightedAll(mags, rate, length, k) ==
    IF k < 1 THEN 0
    ELSE BandWeightedAll(mags, rate, length, k - 1) + k * mags[k + 1]

\* weightedSum * length / rate of the centroid loop: sum of i * m[i] over
\* in-band bins 1..k
RECURSIVE BandWeighted(_, _, _, _)
BandWeighted(mags, rate, length, k) ==
    IF k < 1 THEN 0
    ELSE BandWeighted(mags, rate, length, k - 1)
         + (IF InBand(k, rate, length) THEN k * mags[k + 1] ELSE 0)

\* the entropy loop: - sum of p ln p over samples with p = |x| / rms > 0.001;
\* with rms = 0 every p is NaN or +Inf... a zero window gives NaN > 0.001
\* false for every sample.  Result in 1/Q.
RECURSIVE EntropySum(_, _, _)
EntropySum(s, rms, n) ==
    IF n = 0 THEN 0
    ELSE LET p == IF rms = 0 THEN 0 ELSE (Abs(s[n]) * Q) \div rms
         IN  EntropySum(s, rms, n - 1)
             - (IF p > Q \div 1000 THEN (p * LnQ(p)) \div Q ELSE 0)

AbsSeq(s) == [i \in 1..Len(s) |-> Abs(s[i])]

SqSeq(s) == [i \in 1..Len(s) |-> s[i] * s[i]]

\* the spectral part of extractFeatures: "Find dominant frequency" and
\* "Spectral centroid", on the spectrum simpleFFT left in magnitudeBuffer
FirmwareSpectral(length, mags) ==
    LET scan == BandScan(mags, SAMPLE_RATE, length, FirmwareBins(length) - 1)
        wsum == BandWeighted(mags, SAMPLE_RATE, length, FirmwareBins(length) - 1)
    IN  [ dominantFreqBin   |-> scan[2],
          dominantFrequency |-> Rat(scan[2] * SAMPLE_RATE, length),
          totalPower        |-> scan[3],
          spectralCentroid  |-> IF scan[3] > 0
                                THEN Rat(wsum * SAMPLE_RATE, length * scan[3])
                                ELSE <<0, 1>> ]

\* TremorFeatures extractFeatures(float* signal, int length), length >= 1;
\* mags is the magnitude spectrum simpleFFT left in magnitudeBuffer.
\* Amplitudes, energy and entropy in 1/Q.
ExtractFeatures(signal, mags) ==
    LET length == Len(signal)
        rms    == ISqrt(SumTo(SqSeq(signal), length) \div length)
        sp     == FirmwareSpectral(length, mags)
    IN  [ meanAmplitude     |-> Rat(SumTo(AbsSeq(signal), length), length),
          rmsAmplitude      |-> <<rms, 1>>,
          signalEnergy      |-> (rms * rms) \div Q,
          zeroCrossingRate  |-> Rat(ZeroCrossings(signal, length), length),
          dominantFrequency |-> sp.dominantFrequency,
          frequencyPower    |-> sp.totalPower,
          spectralCentroid  |-> sp.spectralCentroid,
          entropy           |-> EntropySum(signal, rms, length) ]

\* the weights with the sign of the dominantFrequency weight flipped
weightsNegativeFrequency == <<10, -20, -30, -10, 20, 15, -25, 5, 10, -5>>

\* MLModel.weights, in 1/100
weights == <<10, -20, 30, -10, 20, 15, -25, 5, 10, -5>>

\* MLModel.bias, in 1/100
bias == 50

\* floor of m * p for a rational p
RScale(p, m) == (p[1] * m) \div p[2]

\* float normalizedFeatures[10] of classifyTremor, in 10^-6
NormalizedFeatures(f) ==
    << RScale(f.meanAmplitude, 1),
       RScale(f.rmsAmplitude, 1),
       RScale(f.dominantFrequency, 10 ^ 5),
       f.frequencyPower \div 10,
       RScale(f.spectralCentroid, 10 ^ 5),
       RScale(f.zeroCrossingRate, 10 ^ 7),
       f.signalEnergy \div 100,
       f.entropy * 10,
       IF RLeq(<<3, 1>>, f.dominantFrequency) /\ RLeq(f.dominantFrequency, <<8, 1>>)
       THEN 10 ^ 6 ELSE 0,
       IF RLess(<<10 * Q, 1>>, f.rmsAmplitude) THEN 10 ^ 6 ELSE 0 >>

RECURSIVE Dot(_, _, _)
Dot(w, x, n) == IF n = 0 THEN 0 ELSE Dot(w, x, n - 1) + w[n] * x[n]

\* the forward pass of classifyTremor: output, in 10^-8
Score(f) == bias * (10 ^ 6) + Dot(weights, NormalizedFeatures(f), 10)

\* String classifyTremor(TremorFeatures features)
ClassifyTremor(f) ==
    IF Score(f) > 70 * (10 ^ 6) THEN "severe"
    ELSE IF Score(f) > 40 * (10 ^ 6) THEN "moderate"
    ELSE IF Score(f) > 10 * (10 ^ 6) THEN "mild"
    ELSE "normal"

\* the canned texts of generateInsights
Recommendations(c) ==
    IF c = "severe" THEN
        << "Contact healthcare provider immediately",
           "Monitor for medication effectiveness",
           "Consider DBS evaluation if persistent" >>
    ELSE IF c = "moderate" THEN
        << "Continue current medication regimen",
           "Monitor for pattern changes",
           "Consider physical therapy" >>
    ELSE IF c = "mild" THEN
        << "Regular monitoring recommended",
           "Maintain healthy lifestyle",
           "Watch for progression indicators" >>
    ELSE
        << "Continue normal activities",
           "Regular check-ups recommended",
           "No immediate concerns" >>

PredictedProgression(c) ==
    IF c = "severe" THEN "Rapid progression likely - immediate intervention recommended"
    ELSE IF c = "moderate" THEN "Stable with potential slow progression"
    ELSE IF c = "mild" THEN "Early stage - monitor closely"
    ELSE "Normal variation - no progression detected"

\* AIInsights generateInsights(features, classification);
\* confidence = min(0.95, 0.7 + entropy / 20.0), a rational
GenerateInsights(f, classification) ==
    LET c == Rat(14 * Q + f.entropy, 20 * Q)
    IN  [ pattern              |-> classification,
          confidence           |-> IF RLess(<<19, 20>>, c) THEN <<19, 20>> ELSE c,
          recommendations      |-> Recommendations(classification),
          predictedProgression |-> PredictedProgression(classification) ]

\* the smoothing left out: features.x keeps the value of this window
SmoothNone(prev, cur) == cur

\* features.x = 0.8 * prevFeatures.x + 0.2 * features.x, on rationals
Smooth(prev, cur) == Rat(4 * prev[1] * cur[2] + cur[1] * prev[2], 5 * prev[2] * cur[2])

\* the features after "Apply filtering to features for stability"
SmoothFeatures(prev, f) ==
    [f EXCEPT !.meanAmplitude = Smooth(prev.meanAmplitude, f.meanAmplitude),
              !.rmsAmplitude  = Smooth(prev.rmsAmplitude, f.rmsAmplitude)]

\* root["severityIndex"] = min(100, max(0, rms * 10 + dominantFrequency * 2)),
\* a rational (rms is in 1/Q)
SeverityIndex(f) ==
    LET r == f.rmsAmplitude
        d == f.dominantFrequency
        v == Rat(10 * r[1] * d[2] + 2 * d[1] * Q * r[2], Q * r[2] * d[2])
    IN  IF RLess(<<100, 1>>, v) THEN <<100, 1>>
        ELSE IF RLess(v, <<0, 1>>) THEN <<0, 1>> ELSE v

\* static TremorFeatures prevFeatures = {0}
ZeroFeatures ==
    [ meanAmplitude |-> <<0, 1>>, rmsAmplitude |-> <<0, 1>>, signalEnergy |-> 0,
      zeroCrossingRate |-> <<0, 1>>, dominantFrequency |-> <<0, 1>>,
      frequencyPower |-> 0, spectralCentroid |-> <<0, 1>>, entropy |-> 0 ]

\* the window processTremorData hands to extractFeatures:
\* memcpy(windowBuffer, &emgBuffer[bufferIndex - WINDOW_SIZE], WINDOW_SIZE floats)
WindowOf(buf, idx) == SubSeq(buf, idx - WINDOW_SIZE + 1, idx)

\* the JSON document processTremorData builds (deviceId, timestamp and
\* batteryLevel, which no claim reads, are left out)
Document(buf, f, insights) ==
    [ frequency     |-> f.dominantFrequency,
      amplitude     |-> f.rmsAmplitude,
      severityIndex |-> SeverityIndex(f),
      emg           |-> SubSeq(buf, 1, Min(50, SAMPLES)),
      aiInsights    |-> insights ]


(***************************************************************************)
(* main.cpp: the local-classification firmware.  Voltages are integers in  *)
(* millivolts.                                                             *)
(***************************************************************************)
\* float voltage = (rawValue / 4095.0) * 3.3
Voltage(rawValue) == (rawValue * 3300) \div 4095

\* filteredValue = alpha * voltage + (1 - alpha) * filteredValue, alpha = 0.1,
\* then the reset "if (abs(filteredValue - voltage) > 2.0) filteredValue = voltage"
LowPass(prev, voltage) ==
    LET f == (voltage + 9 * prev) \div 10
    IN  IF Abs(f - voltage) > 2000 THEN voltage ELSE f

\* the tail signal[1..length-1] the loop "for (int i = 1; i < length; i++)" visits
LocalVisited(signal) == SubSeq(signal, 2, Len(signal))

\* void extractFeatures(float* signal, int length, float* features):
\* <<meanAmp, rms, zcr, domFreq>>; meanAmp and zcr rationals, rms floor, domFreq
\* an integer because SAMPLE_RATE / (2 * length) is an int division
LocalExtractFeatures(signal) ==
    LET length == Len(signal)
        v      == LocalVisited(signal)
        zc     == ZeroCrossings(signal, length)
    IN  << Rat(SumTo(AbsSeq(v), Len(v)), length),
           ISqrt(SumTo(SqSeq(v), Len(v)) \div length),
           Rat(zc, length),
           IF zc > 0 THEN (SAMPLE_RATE \div (2 * length)) * zc ELSE 0 >>

\* the thresholds with the upper end of the "severe" range at 5 Hz
ThresholdsSevereUpToFive == <<1, 3, 5>>

\* const float FREQ_THRESHOLDS[3] = {1.0, 3.0, 6.0}
FREQ_THRESHOLDS == <<1, 3, 6>>

\* TremorClass classifyFromFeatures(float* features)
ClassifyFromFeatures(features) ==
    LET domFreq == features[4]
    IN  IF domFreq < FREQ_THRESHOLDS[1] THEN "NORMAL"
        ELSE IF domFreq < FREQ_THRESHOLDS[2] THEN "MILD"
        ELSE IF domFreq <= FREQ_THRESHOLDS[3] THEN "SEVERE"
        ELSE "NORMAL"

\* classifyTremorLocally() printing after every batch, changed class or not
ClassifyTremorLocallyAlwaysPrints(current, out, features) ==
    LET classification == ClassifyFromFeatures(features)
    IN  << classification,
           Append(out, <<classification, features[4], features[1], features[2]>>) >>

\* void classifyTremorLocally(), after extractFeatures(emgBuffer, BATCH_SIZE,
\* features): <<currentClassification, the CLASSIFICATION: lines printed>>
ClassifyTremorLocally(current, out, features) ==
    LET classification == ClassifyFromFeatures(features)
    IN  IF classification # current
        THEN << classification,
                Append(out, <<classification, features[4], features[1], features[2]>>) >>
        ELSE << current, out >>

(***************************************************************************)
(* part_011: the server pipeline.  A sample that may be non-finite is a    *)
(* pair: <<"fin", n>> (n in 1/Q... or in input units) or <<"nan", 0>>, the *)
(* latter standing for NaN and +-Infinity alike: every sum and every       *)
(* product with a non-zero coefficient that has a non-finite operand is    *)
(* non-finite.                                                             *)
(***************************************************************************)
Fin(n) == <<"fin", n>>

NonFinite == <<"nan", 0>>

IsFinite(x) == x[1] = "fin"

\* coefficient c times x
LMul(c, x) == IF IsFinite(x) THEN Fin(c * x[2]) ELSE NonFinite

LAdd(x, y) == IF IsFinite(x) /\ IsFinite(y) THEN Fin(x[2] + y[2]) ELSE NonFinite

LSub(x, y) == IF IsFinite(x) /\ IsFinite(y) THEN Fin(x[2] - y[2]) ELSE NonFinite

\* ButterworthFilter.filter(input), the output on the shifted history
\* (h[1] is this.history[0]); history values in input units, output in 1/Q
ServerFilterOutput(h) ==
    LSub(LSub(LAdd(LAdd(LMul(b[1], h[1]), LMul(b[2], h[2])), LMul(b[3], h[3])),
              LMul(a[2], h[2])),
         LMul(a[3], h[3]))

\* applyBandpassFilter of part_000 on the same lifted values
LiftedFirmwareFilterOutput(h) ==
    LSub(LSub(LAdd(LAdd(LMul(b[1], h[1]), LMul(b[2], h[2])), LMul(b[3], h[3])),
              LMul(a[2], LSub(h[2], h[2]))),
         LMul(a[3], LSub(h[3], h[3])))

\* magnitude.length of simpleFFT(data, sampleRate): k < n / 2 in floating point
ServerBins(n) == (n + 1) \div 2

\* the spectral part of extractEMGFeatures: "Find dominant frequency" and
\* "Spectral centroid"; dominantFrequency is frequencyArray[dominantFreqBin] || 0
ServerSpectral(n, sampleRate, mags) ==
    LET scan == BandScan(mags, sampleRate, n, ServerBins(n) - 1)
        wsum == BandWeighted(mags, sampleRate, n, ServerBins(n) - 1)
    IN  [ dominantFreqBin   |-> scan[2],
          dominantFrequency |-> Rat(scan[2] * sampleRate, n),
          totalPower        |-> scan[3],
          spectralCentroid  |-> IF scan[3] > 0
                                THEN Rat(wsum * sampleRate, n * scan[3])
                                ELSE <<0, 1>> ]

\* severityIndex of extractEMGFeatures:
\* min(100, max(0, (rms / 100) * 50 + (dominantFreq / 10) * 30 + (zcr * 100) * 20)),
\* rms in 1/Q, dom and zcr rationals
ServerSeverityIndex(rms, dom, zcr) ==
    LET sev == Rat(rms * dom[2] * zcr[2] + 6 * Q * dom[1] * zcr[2]
                       + 4000 * Q * zcr[1] * dom[2],
                   2 * Q * dom[2] * zcr[2])
    IN  IF RLess(<<100, 1>>, sev) THEN <<100, 1>>
        ELSE IF RLess(sev, <<0, 1>>) THEN <<0, 1>>
        ELSE sev

\* ProcessedEMGFeatures extractEMGFeatures(signal, sampleRate); mags is the
\* magnitude array simpleFFT returned.  signalVariance is
\* sum((val - meanAmplitude)^2) / n with meanAmplitude = S / n, S = sum |val|:
\* (n * sum val^2 - 2 * S * sum val + S^2) / n^2.  Amplitudes in 1/Q.
ServerExtractFeatures(signal, sampleRate, mags) ==
    LET n    == Len(signal)
        S    == SumTo(AbsSeq(signal), n)
        T    == SumTo(signal, n)
        sq   == SumTo(SqSeq(signal), n)
        rms  == ISqrt(sq \div n)
        zcr  == Rat(ZeroCrossings(signal, n), n)
        sp   == ServerSpectral(n, sampleRate, mags)
        dom  == sp.dominantFrequency
    IN  IF n = 0
        THEN [ frequency |-> <<0, 1>>, amplitude |-> <<0, 1>>,
               severityIndex |-> <<0, 1>>, dominantFrequency |-> <<0, 1>>,
               spectralCentroid |-> <<0, 1>>, signalEnergy |-> 0,
               zeroCrossingRate |-> <<0, 1>>, rmsAmplitude |-> <<0, 1>>,
               meanAmplitude |-> <<0, 1>>, signalVariance |-> <<0, 1>> ]
        ELSE [ frequency         |-> dom,
               amplitude         |-> <<rms, 1>>,
               severityIndex     |-> ServerSeverityIndex(rms, dom, zcr),
               dominantFrequency |-> dom,
               spectralCentroid  |-> sp.spectralCentroid,
               signalEnergy      |-> (rms * rms) \div Q,
               zeroCrossingRate  |-> zcr,
               rmsAmplitude      |-> <<rms, 1>>,
               meanAmplitude     |-> Rat(S, n),
               signalVariance    |-> Rat(n * sq - 2 * S * T + S * S, n * n) ]

(***************************************************************************)
(* part_011 and route.ts: the insights of the server and of the            *)
(* local-classification handler.                                           *)
(***************************************************************************)
RAdd(p, q) == Rat(p[1] * q[2] + q[1] * p[2], p[2] * q[2])

RMin(p, q) == IF RLess(q, p) THEN q ELSE p

\* the chain of generateEMGInsights with the patterns of its first two
\* branches exchanged: above 70 "moderate", above 40 "severe"
ServerPatternExchanged(severityIndex) ==
    IF RLess(<<70, 1>>, severityIndex) THEN "moderate"
    ELSE IF RLess(<<40, 1>>, severityIndex) THEN "severe"
    ELSE IF RLess(<<20, 1>>, severityIndex) THEN "mild"
    ELSE "normal"

\* the if / else if chain of generateEMGInsights on features.severityIndex
ServerPattern(severityIndex) ==
    IF RLess(<<70, 1>>, severityIndex) THEN "severe"
    ELSE IF RLess(<<40, 1>>, severityIndex) THEN "moderate"
    ELSE IF RLess(<<20, 1>>, severityIndex) THEN "mild"
    ELSE "normal"

\* the confidence generateEMGInsights computes in the branch of a pattern:
\* min(0.95, 0.7 + signalVariance / 1000), min(0.90, 0.6 + dominantFrequency / 15),
\* min(0.85, 0.5 + rmsAmplitude / 50), min(0.80, 0.4 + zeroCrossingRate * 5).
\* rmsAmplitude is in 1/Q, signalVariance in 1/Q^2 (floored to 1/Q here).
ServerConfidence(pattern, features) ==
    LET var == features.signalVariance
        dom == features.dominantFrequency
        rms == features.rmsAmplitude
        zcr == features.zeroCrossingRate
    IN  IF pattern = "severe"
        THEN RMin(<<19, 20>>, Rat(700 * Q + (var[1] \div (var[2] * Q)), 1000 * Q))
        ELSE IF pattern = "moderate"
        THEN RMin(<<9, 10>>, RAdd(<<3, 5>>, Rat(dom[1], 15 * dom[2])))
        ELSE IF pattern = "mild"
        THEN RMin(<<17, 20>>, RAdd(<<1, 2>>, Rat(rms[1] \div rms[2], 50 * Q)))
        ELSE RMin(<<4, 5>>, RAdd(<<2, 5>>, Rat(5 * zcr[1], zcr[2])))

\* the switch (pattern) of generateEMGInsights: recommendations
ServerRecommendations(pattern) ==
    IF pattern = "severe" THEN
        << "Contact healthcare provider immediately",
           "Monitor for medication effectiveness",
           "Consider DBS evaluation if persistent" >>
    ELSE IF pattern = "moderate" THEN
        << "Continue current medication regimen",
           "Monitor for pattern changes",
           "Consider physical therapy" >>
    ELSE IF pattern = "mild" THEN
        << "Regular monitoring recommended",
           "Maintain healthy lifestyle",
           "Watch for progression indicators" >>
    ELSE
        << "Continue normal activities",
           "Regular check-ups recommended",
           "No immediate concerns" >>

\* the switch (pattern) of generateEMGInsights: predictedProgression
ServerPredictedProgression(pattern) ==
    IF pattern = "severe"
    THEN "Rapid progression likely - immediate intervention recommended"
    ELSE IF pattern = "moderate" THEN "Stable with potential slow progression"
    ELSE IF pattern = "mild" THEN "Early stage - monitor closely"
    ELSE "Normal variation - no progression detected"

\* function generateEMGInsights(features: ProcessedEMGFeatures)
GenerateEMGInsights(features) ==
    LET pattern == ServerPattern(features.severityIndex)
    IN  [ pattern              |-> pattern,
          confidence           |-> ServerConfidence(pattern, features),
          recommendations      |-> ServerRecommendations(pattern),
          predictedProgression |-> ServerPredictedProgression(pattern) ]

\* String.prototype.toLowerCase on the classification strings the handler is
\* sent here
ToLowerCase(s) ==
    IF s \in {"NORMAL", "Normal", "normal"} THEN "normal"
    ELSE IF s \in {"MILD", "Mild", "mild"} THEN "mild"
    ELSE IF s \in {"MODERATE", "Moderate", "moderate"} THEN "moderate"
    ELSE IF s \in {"SEVERE", "Severe", "severe"} THEN "severe"
    ELSE s

\* severityMap[classification] || 0 of handleLocalClassification
SeverityMap(classification) ==
    IF classification = "NORMAL" THEN 10
    ELSE IF classification = "MILD" THEN 25
    ELSE IF classification = "MODERATE" THEN 50
    ELSE IF classification = "SEVERE" THEN 80
    ELSE 0

\* function getRecommendationsForClassification(classification: string)
GetRecommendationsForClassification(classification) ==
    IF classification = "SEVERE" THEN
        << "Contact healthcare provider immediately",
           "Monitor for medication effectiveness",
           "Consider DBS evaluation if persistent" >>
    ELSE IF classification = "MODERATE" THEN
        << "Continue current medication regimen",
           "Monitor for pattern changes",
           "Consider physical therapy" >>
    ELSE IF classification = "MILD" THEN
        << "Regular monitoring recommended",
           "Maintain healthy lifestyle",
           "Watch for progression indicators" >>
    ELSE
        << "Continue normal activities",
           "Regular check-ups recommended",
           "No immediate concerns" >>

\* function getProgressionForClassification(classification: string)
GetProgressionForClassification(classification) ==
    IF classification = "SEVERE"
    THEN "Rapid progression likely - immediate intervention recommended"
    ELSE IF classification = "MODERATE" THEN "Stable with potential slow progression"
    ELSE IF classification = "MILD" THEN "Early stage - monitor closely"
    ELSE "Normal variation - no progression detected"

\* aiInsights.pattern: enum ['normal', 'mild', 'moderate', 'severe'] of the
\* TremorData schema; save() rejects a document with any other pattern
PatternEnum == {"normal", "mild", "moderate", "severe"}

(***************************************************************************)
(* part_007: the feature code of the ML endpoint.                          *)
(***************************************************************************)
\* data.rawData.emg.slice(0, 50)
MlSamples(emg) == SubSeq(emg, 1, Min(50, Len(emg)))

\* TremorClassifier.calculateZeroCrossingRate(data): a rational; <<0, 0>> is
\* the NaN of 0 / 0 (one sample)
MlZeroCrossingRate(emg) ==
    LET samples == MlSamples(emg)
    IN  IF Len(emg) = 0 THEN <<0, 1>>
        ELSE IF Len(samples) = 1 THEN <<0, 0>>
        ELSE Rat(ZeroCrossings(samples, Len(samples)), Len(samples) - 1)

\* TremorClassifier.calculateRMS(data)
MlRMS(emg) ==
    LET samples == MlSamples(emg)
    IN  IF Len(emg) = 0 THEN 0
        ELSE ISqrt(SumTo(SqSeq(samples), Len(samples)) \div Len(samples))

(***************************************************************************)
(* The devices.  One of the two firmwares runs; both keep their samples in *)
(* emgBuffer / bufferIndex.                                                *)
(***************************************************************************)
VARIABLES
    firmware,               \* "medical" (part_000), "local" (main.cpp), or
                            \* the name of the function a checking run applies
    emgBuffer,              \* float emgBuffer[]; emgBuffer[i+1] is C's emgBuffer[i]
    bufferIndex,            \* int bufferIndex
    filterHistory,          \* part_000: float filterHistory[3]
    windowBuffer,           \* part_000: float windowBuffer[WINDOW_SIZE]
    prevFeatures,           \* part_000: static TremorFeatures prevFeatures
    posted,                 \* part_000: the documents http.POST was called with
    lastDoc,                \* part_000: the document of the last full buffer
    overrun,                \* part_000: a memcpy wrote past windowBuffer
    layout,                 \* part_000: what the build placed behind windowBuffer
    crashed,                \* part_000: a store through a cursor outside emgBuffer
    filteredValue,          \* main.cpp: float filteredValue
    currentClassification,  \* main.cpp: TremorClass currentClassification
    serialOut,              \* main.cpp: the CLASSIFICATION: lines printed
    nStored,                \* history: samples stored so far
    nWindows,               \* history: full buffers processed so far
    lastStoreIndex,         \* history: the cursor the last sample was stored at
    accum,                  \* history: the samples stored since the last reset
    filled,                 \* history: accum when the buffer last filled
    analysed,               \* history: the signal extractFeatures last got
                            \*          from a full buffer
    rawLog,                 \* history: <<mean, rms>> of each analysed window,
                            \*          before smoothing
    now,                    \* millis() at the start of the next pass of loop()
    lastSampleTime,         \* part_000: in microseconds; main.cpp: in ms
    lastSendTime,           \* part_000, in ms
    call,                   \* the arguments of a function under check
    ret,                    \* its result
    pc                      \* "run" (a device), "called" or "returned"

vars ==
    << firmware, emgBuffer, bufferIndex, filterHistory, windowBuffer, prevFeatures,
       posted, lastDoc, overrun, layout, crashed, filteredValue,
       currentClassification, serialOut,
       nStored, nWindows, lastStoreIndex, accum, filled, analysed, rawLog,
       now, lastSampleTime, lastSendTime,
       call, ret, pc >>

deviceVars ==
    << emgBuffer, bufferIndex, filterHistory, windowBuffer, prevFeatures,
       posted, lastDoc, overrun, layout, crashed, filteredValue,
       currentClassification, serialOut,
       nStored, nWindows, lastStoreIndex, accum, filled, analysed, rawLog,
       now, lastSampleTime, lastSendTime >>

\* analogRead(EMG_PIN) of the medical firmware: readings around the 2048 centre
MedicalReadings == {2047, 2050}

\* analogRead(EMG_PIN) of the local firmware
LocalReadings == {0, 4095}

\* magnitudes simpleFFT may produce (its trigonometric sums are not computed:
\* any non-negative spectrum is allowed), in 1/Q
Magnitudes == {0, Q, 3 * Q}

Spectra(nb) == [1..nb -> Magnitudes]

Capacity == IF firmware = "medical" THEN SAMPLES ELSE BATCH_SIZE

NoDoc == [ frequency |-> <<0, 1>>, amplitude |-> <<0, 1>>, severityIndex |-> <<0, 1>>,
           emg |-> <<>>,
           aiInsights |-> [ pattern |-> "none", confidence |-> <<0, 1>>,
                            recommendations |-> <<>>, predictedProgression |-> "" ] ]

\* The object behind windowBuffer[WINDOW_SIZE] that an overrunning copy writes
\* on.  The
\* sketch defines emgBuffer, bufferIndex, lastSampleTime, lastSendTime,
\* windowBuffer, magnitudeBuffer in this order.  A build that lays them out in
\* this order puts magnitudeBuffer (as long as windowBuffer) there; a build
\* that lays them out in the reverse order puts the two timestamps, the
\* cursor and then the sample buffer there.
Layouts == {"magnitudeBuffer", "bufferIndex", "emgBuffer"}

DeviceInit(fw, cap) ==
    /\ firmware = fw
    /\ crashed = FALSE
    /\ emgBuffer = [i \in 1..cap |-> 0]
    /\ bufferIndex = 0
    /\ filterHistory = <<0, 0, 0>>
    /\ windowBuffer = [i \in 1..WINDOW_SIZE |-> 0]
    /\ prevFeatures = ZeroFeatures
    /\ posted = <<>>
    /\ lastDoc = NoDoc
    /\ overrun = FALSE
    /\ filteredValue = 0
    /\ currentClassification = "NORMAL"
    /\ serialOut = <<>>
    /\ nStored = 0
    /\ nWindows = 0
    /\ lastStoreIndex = 0
    /\ accum = <<>>
    /\ filled = <<>>
    /\ analysed = <<>>
    /\ rawLog = <<>>
    /\ lastSampleTime = 0
    /\ lastSendTime = 0

\* millis() at the first pass of loop(): setup() of part_000 waits for the
\* WiFi connection, so the first pass falls anywhere in a send interval
BootTimes == 1..(SEND_INTERVAL + 1)

\* the time http.POST(jsonString) takes, in ms: an answer within a
\* millisecond, and one that takes longer than a sampling period
PostTimes == {1, SAMPLE_DELAY + 1}

Init ==
    /\ call = <<>>
    /\ ret = <<>>
    /\ pc = "run"
    /\ \/ DeviceInit("medical", SAMPLES) /\ layout \in Layouts /\ now \in BootTimes
       \/ DeviceInit("local", BATCH_SIZE) /\ layout = "magnitudeBuffer"
          /\ now = SAMPLE_DELAY


(***************************************************************************)
(* part_000: loop().                                                       *)
(***************************************************************************)
\* the device state the two halves of loop() work on
Device ==
    [ emgBuffer |-> emgBuffer, bufferIndex |-> bufferIndex,
      filterHistory |-> filterHistory, windowBuffer |-> windowBuffer,
      prevFeatures |-> prevFeatures, posted |-> posted, lastDoc |-> lastDoc,
      overrun |-> overrun, crashed |-> crashed, nStored |-> nStored,
      nWindows |-> nWindows, lastStoreIndex |-> lastStoreIndex, accum |-> accum,
      filled |-> filled, analysed |-> analysed, rawLog |-> rawLog ]

\* void processTremorData(): d.bufferIndex is the cursor after the store
ProcessTremorData(d, wifi, mags) ==
    IF d.bufferIndex < SAMPLES THEN d
    ELSE
        LET window   == WindowOf(d.emgBuffer, d.bufferIndex)
            features == ExtractFeatures(window, mags)
            smoothed == SmoothFeatures(d.prevFeatures, features)
            insights == GenerateInsights(smoothed, ClassifyTremor(smoothed))
            doc      == Document(d.emgBuffer, smoothed, insights)
        IN  [d EXCEPT !.windowBuffer = window,
                      !.prevFeatures = smoothed,
                      !.lastDoc      = doc,
                      !.posted       = IF wifi THEN Append(@, doc) ELSE @,
                      !.bufferIndex  = 0,
                      !.nWindows     = @ + 1,
                      !.analysed     = window,
                      !.filled       = d.accum,
                      !.accum        = <<>>,
                      !.rawLog       = Append(@, <<features.meanAmplitude,
                                                   features.rmsAmplitude>>)]

\* "if (currentTime - lastSampleTime >= SAMPLE_DELAY) { ... }": read, filter,
\* store, process when full
SampleStep(d, rawValue, wifi, mags) ==
    LET h        == ShiftHistory(d.filterHistory, rawValue - 2048)
        filtered == FirmwareFilterOutput(h)
    IN  IF d.bufferIndex \notin 0..(SAMPLES - 1)
        THEN \* emgBuffer[bufferIndex++] outside the array
             [d EXCEPT !.filterHistory = h, !.lastStoreIndex = d.bufferIndex,
                       !.nStored = @ + 1, !.crashed = TRUE]
        ELSE ProcessTremorData(
                 [d EXCEPT !.filterHistory  = h,
                           !.emgBuffer      = [@ EXCEPT ![d.bufferIndex + 1] = filtered],
                           !.lastStoreIndex = d.bufferIndex,
                           !.bufferIndex    = @ + 1,
                           !.nStored        = @ + 1,
                           !.accum          = Append(@, filtered)],
                 wifi, mags)

\* the int a float's bit pattern reads as, when it lands on bufferIndex:
\* 0 for 0.0, at least 2^23 for a positive normal float, negative for a
\* negative float
FloatBitsAsInt(x) ==
    IF x = 0 THEN 0 ELSE IF x > 0 THEN 2 ^ 23 + x ELSE 0 - (2 ^ 23) + x

\* "if (millis() - lastSendTime > SEND_INTERVAL && bufferIndex > 0) { ... }":
\* memcpy(windowBuffer, emgBuffer, sizeof(float) * bufferIndex), then
\* extractFeatures for a Serial line.  The copy writes the floats
\* emgBuffer[WINDOW_SIZE .. bufferIndex-1] behind windowBuffer.
PreviewStep(d) ==
    LET n    == d.bufferIndex
        over == n - WINDOW_SIZE
        copy == [i \in 1..WINDOW_SIZE |->
                    IF i <= n THEN d.emgBuffer[i] ELSE d.windowBuffer[i]]
    IN  IF over <= 0 THEN [d EXCEPT !.windowBuffer = copy]
        ELSE IF layout = "bufferIndex"
        THEN [d EXCEPT !.windowBuffer = copy, !.overrun = TRUE,
                       !.bufferIndex = FloatBitsAsInt(d.emgBuffer[WINDOW_SIZE + 1])]
        ELSE IF layout = "emgBuffer"
        THEN [d EXCEPT !.windowBuffer = copy, !.overrun = TRUE,
                       !.emgBuffer = [i \in 1..SAMPLES |->
                           IF i <= over THEN d.emgBuffer[WINDOW_SIZE + i]
                           ELSE d.emgBuffer[i]]]
        ELSE [d EXCEPT !.windowBuffer = copy, !.overrun = TRUE]

\* one pass of loop(): the sampling half when micros() - lastSampleTime >=
\* SAMPLE_DELAY, then the preview half when millis() - lastSendTime >
\* SEND_INTERVAL, then delay(1).  The pass starts at now; http.POST inside
\* processTremorData returns after postTime, the rest of the pass takes no
\* time.
MedicalLoop ==
    /\ firmware = "medical"
    /\ ~crashed
    /\ nStored < MaxSamples
    /\ \E wifi \in BOOLEAN, rawValue \in MedicalReadings, postTime \in PostTimes,
          mags \in Spectra(FirmwareBins(WINDOW_SIZE)) :
         LET sampleDue == 1000 * now - lastSampleTime >= SAMPLE_DELAY
         IN  \E d1 \in {IF sampleDue THEN SampleStep(Device, rawValue, wifi, mags)
                        ELSE Device} :
             \E sent \in {IF Len(d1.posted) > Len(posted) THEN postTime ELSE 0} :
             \E sendDue \in {now + sent - lastSendTime > SEND_INTERVAL
                              /\ d1.bufferIndex > 0 /\ ~d1.crashed} :
             \E d2 \in {IF sendDue THEN PreviewStep(d1) ELSE d1} :
                /\ lastSampleTime' = IF sampleDue THEN 1000 * now ELSE lastSampleTime
                /\ lastSendTime' = IF sendDue THEN now + sent ELSE lastSendTime
                /\ now' = now + sent + 1
                /\ emgBuffer' = d2.emgBuffer
                /\ bufferIndex' = d2.bufferIndex
                /\ filterHistory' = d2.filterHistory
                /\ windowBuffer' = d2.windowBuffer
                /\ prevFeatures' = d2.prevFeatures
                /\ posted' = d2.posted
                /\ lastDoc' = d2.lastDoc
                /\ overrun' = d2.overrun
                /\ crashed' = d2.crashed
                /\ nStored' = d2.nStored
                /\ nWindows' = d2.nWindows
                /\ lastStoreIndex' = d2.lastStoreIndex
                /\ accum' = d2.accum
                /\ filled' = d2.filled
                /\ analysed' = d2.analysed
                /\ rawLog' = d2.rawLog
    /\ UNCHANGED << firmware, layout, filteredValue, currentClassification,
                    serialOut, call, ret, pc >>

(***************************************************************************)
(* main.cpp: loop().                                                       *)
(***************************************************************************)
\* one pass of loop() with a sample due: read, low-pass, store, and
\* classifyTremorLocally() on a full batch.  loop() spins without a delay, so
\* the next pass that finds a sample due starts SAMPLE_DELAY ms after this one.
LocalLoop ==
    /\ firmware = "local"
    /\ nStored < MaxSamples
    /\ now - lastSampleTime >= SAMPLE_DELAY
    /\ lastSampleTime' = now
    /\ now' = now + SAMPLE_DELAY
    /\ \E rawValue \in LocalReadings :
         LET f     == LowPass(filteredValue, Voltage(rawValue))
             buf   == [emgBuffer EXCEPT ![bufferIndex + 1] = f]
             feats == LocalExtractFeatures(buf)
             r     == ClassifyTremorLocally(currentClassification, serialOut, feats)
         IN  /\ filteredValue' = f
             /\ emgBuffer' = buf
             /\ lastStoreIndex' = bufferIndex
             /\ nStored' = nStored + 1
             /\ IF bufferIndex + 1 >= BATCH_SIZE
                THEN /\ bufferIndex' = 0
                     /\ nWindows' = nWindows + 1
                     /\ analysed' = buf
                     /\ filled' = Append(accum, f)
                     /\ accum' = <<>>
                     /\ currentClassification' = r[1]
                     /\ serialOut' = r[2]
                ELSE /\ bufferIndex' = bufferIndex + 1
                     /\ accum' = Append(accum, f)
                     /\ UNCHANGED << nWindows, analysed, filled,
                                     currentClassification, serialOut >>
    /\ UNCHANGED << firmware, layout, crashed, filterHistory, windowBuffer,
                    prevFeatures, posted, lastDoc, overrun, rawLog, lastSendTime,
                    call, ret, pc >>

Next == MedicalLoop \/ LocalLoop

Spec == Init /\ [][Next]_vars


(***************************************************************************)
(* The functions of the pipeline, applied to arguments drawn from bounded  *)
(* sets.  `firmware` names the implementation, `call` holds the arguments, *)
(* `ret` the result; the device variables rest at their initial values.    *)
(***************************************************************************)
Bench(impl) == DeviceInit(impl, 0) /\ layout = "magnitudeBuffer" /\ now = 0

\* ---- the filters, fed sample by sample -------------------------------
\* samples fed to one filter object
MaxInputs == 4

FiniteInputs == {Fin(0 - 1), Fin(0), Fin(2)}

\* the server filters what the request's JSON carries, and 1e999 parses to
\* Infinity; the firmware filters analogRead() - 2048
FilterInputs(impl) ==
    IF impl = "server" THEN FiniteInputs \cup {NonFinite} ELSE FiniteInputs

FilterOutput(impl, h) ==
    IF impl = "server" THEN ServerFilterOutput(h) ELSE LiftedFirmwareFilterOutput(h)

ZeroHistory == <<Fin(0), Fin(0), Fin(0)>>

FilterInit ==
    /\ \E impl \in {"server", "medical"} : Bench(impl)
    /\ call = <<>>
    /\ ret = [history |-> ZeroHistory, out |-> <<>>]
    /\ pc = "called"

\* filter.filter(sample) / applyBandpassFilter(input)
FilterStep ==
    /\ Len(call) < MaxInputs
    /\ \E x \in FilterInputs(firmware) :
         LET h == ShiftHistory(ret.history, x)
         IN  /\ call' = Append(call, x)
             /\ ret' = [history |-> h, out |-> Append(ret.out, FilterOutput(firmware, h))]
    /\ UNCHANGED << firmware, pc >>
    /\ UNCHANGED deviceVars

\* ButterworthFilter.reset(): a new sampling session
FilterReset ==
    /\ firmware = "server"
    /\ call # <<>>
    /\ call' = <<>>
    /\ ret' = [history |-> ZeroHistory, out |-> <<>>]
    /\ UNCHANGED << firmware, pc >>
    /\ UNCHANGED deviceVars

FilterNext == FilterStep \/ FilterReset

SpecFilter == FilterInit /\ [][FilterNext]_vars

\* ---- the time-domain features ------------------------------------------
\* longest window of the feature benches
MaxLen == 3

SampleValues == {0 - 2000, 0, 1000, 3000}

Windows(maxLen) == UNION {[1..n -> SampleValues] : n \in 1..maxLen}

FeatureImpls == {"server", "medical", "local", "ml"}

\* the local firmware extracts from a full batch of low-passed voltages, which
\* are never negative; the others from a window of any length
FeaturesInit ==
    /\ \E impl \in FeatureImpls : Bench(impl)
    /\ call \in Windows(MaxLen)
    /\ firmware = "local" =>
         Len(call) = BATCH_SIZE /\ \A i \in 1..Len(call) : call[i] >= 0
    /\ ret = <<>>
    /\ pc = "called"

\* the amplitude and zero-crossing features each implementation computes for
\* the window `call` (mags: what simpleFFT returned)
TimeFeatures(impl, signal, mags) ==
    IF impl = "server"
    THEN LET f == ServerExtractFeatures(signal, SAMPLE_RATE, mags)
         IN  [ meanAmplitude |-> f.meanAmplitude, rmsAmplitude |-> f.rmsAmplitude,
               zeroCrossingRate |-> f.zeroCrossingRate ]
    ELSE IF impl = "medical"
    THEN LET f == ExtractFeatures(signal, mags)
         IN  [ meanAmplitude |-> f.meanAmplitude, rmsAmplitude |-> f.rmsAmplitude,
               zeroCrossingRate |-> f.zeroCrossingRate ]
    ELSE IF impl = "local"
    THEN LET f == LocalExtractFeatures(signal)
         IN  [ meanAmplitude |-> f[1], rmsAmplitude |-> <<f[2], 1>>,
               zeroCrossingRate |-> f[3] ]
    ELSE [ rmsAmplitude |-> <<MlRMS(signal), 1>>,
           zeroCrossingRate |-> MlZeroCrossingRate(signal) ]

FeaturesCall ==
    /\ pc = "called"
    /\ \E mags \in Spectra(IF firmware = "server" THEN ServerBins(Len(call))
                           ELSE FirmwareBins(Len(call))) :
         ret' = TimeFeatures(firmware, call, mags)
    /\ pc' = "returned"
    /\ UNCHANGED << firmware, call >>
    /\ UNCHANGED deviceVars

SpecFeatures == FeaturesInit /\ [][FeaturesCall]_vars


\* ---- the spectral part ---------------------------------------------------
\* longest window the server's spectral part is applied to
MaxSpecLen == 8

\* sample rates a request may state (emgData.sampleRate); the firmware's is
\* SAMPLE_RATE
ServerRates == {24, 48, SAMPLE_RATE}

\* window lengths of the firmware: partial windows of the preview, and the
\* lengths at which bins of a 200 Hz spectrum fall into the band
FirmwareLengths == {1, 2, 3, 5, 17, 40, 64, 128}

\* the tremor band of the specification: bin i of n at `rate` Hz is at
\* i * rate / n Hz, in [3, 12]
TremorBand(i, rate, n) == 3 * n <= i * rate /\ i * rate <= 12 * n

BandBins(nb, rate, n) == {i \in 1..(nb - 1) : TremorBand(i, rate, n)}

\* magnitude spectra of nb bins (bin k is mags[k+1]): every spectrum when
\* there are few bins, else every choice of the in-band magnitudes with one
\* common magnitude in the other bins
SpectraFor(nb, rate, n) ==
    IF nb <= 4 THEN Spectra(nb)
    ELSE { [k \in 1..nb |-> IF (k - 1) \in BandBins(nb, rate, n) THEN f[k - 1] ELSE o] :
             f \in [BandBins(nb, rate, n) -> Magnitudes], o \in Magnitudes }

SpectralInit ==
    /\ \/ /\ Bench("server")
          /\ \E n \in 1..MaxSpecLen, rate \in ServerRates :
               \E mags \in SpectraFor(ServerBins(n), rate, n) :
                 call = [length |-> n, sampleRate |-> rate, mags |-> mags]
       \/ /\ Bench("medical")
          /\ \E n \in FirmwareLengths :
               \E mags \in SpectraFor(FirmwareBins(n), SAMPLE_RATE, n) :
                 call = [length |-> n, sampleRate |-> SAMPLE_RATE, mags |-> mags]
    /\ ret = <<>>
    /\ pc = "called"

SpectralCall ==
    /\ pc = "called"
    /\ ret' = IF firmware = "server"
              THEN ServerSpectral(call.length, call.sampleRate, call.mags)
              ELSE FirmwareSpectral(call.length, call.mags)
    /\ pc' = "returned"
    /\ UNCHANGED << firmware, call >>
    /\ UNCHANGED deviceVars

SpecSpectral == SpectralInit /\ [][SpectralCall]_vars

\* ---- the weighted-score classifier -----------------------------------
\* highest dominant frequency (Hz) the classifier is asked about
MaxFreq == 12

\* amplitudes (mean = rms) of the feature vectors, in 1/Q
Amplitudes == {0, 20 * Q, 50 * Q}

\* the features held fixed while the dominant frequency varies
FixedFeatures ==
    { [ meanAmplitude |-> <<amp, 1>>, rmsAmplitude |-> <<amp, 1>>,
        signalEnergy |-> (amp \div Q) * amp,
        zeroCrossingRate |-> <<zc, 20>>, dominantFrequency |-> <<0, 1>>,
        frequencyPower |-> fp, spectralCentroid |-> <<sc, 1>>, entropy |-> en ] :
      amp \in Amplitudes, zc \in {0, 1}, fp \in {0, 500 * Q},
      sc \in {0, 6}, en \in {0 - 2 * Q, 0, 2 * Q} }

ClassifierInit ==
    /\ Bench("medical")
    /\ \E f \in FixedFeatures, lo, hi \in 0..(2 * MaxFreq) :
         call = [features |-> f, lo |-> Rat(lo, 2), hi |-> Rat(hi, 2)]
    /\ ret = <<>>
    /\ pc = "called"

\* classifyTremor on the two feature vectors that differ in dominantFrequency
\* (call.lo and call.hi, in steps of half a hertz)
ClassifierCall ==
    /\ pc = "called"
    /\ ret' = [ lo |-> ClassifyTremor([call.features EXCEPT
                                          !.dominantFrequency = call.lo]),
                hi |-> ClassifyTremor([call.features EXCEPT
                                          !.dominantFrequency = call.hi]) ]
    /\ pc' = "returned"
    /\ UNCHANGED << firmware, call >>
    /\ UNCHANGED deviceVars

SpecClassifier == ClassifierInit /\ [][ClassifierCall]_vars


\* ---- the records of the three pipelines, two at a time ----------------
\* the record processTremorData posts for the features of a window: the
\* fields of Document that are computed from the features
MedicalRecord(f) ==
    [ frequency     |-> f.dominantFrequency,
      amplitude     |-> f.rmsAmplitude,
      severityIndex |-> SeverityIndex(f),
      aiInsights    |-> GenerateInsights(f, ClassifyTremor(f)) ]

\* the TremorData handleRawEMGData builds from the features processRawEMGData
\* returned
ServerRecord(features) ==
    [ frequency     |-> features.frequency,
      amplitude     |-> features.amplitude,
      severityIndex |-> features.severityIndex,
      aiInsights    |-> GenerateEMGInsights(features) ]

\* the TremorData handleLocalClassification builds from a request body
\* (body.frequency || 0, body.amplitude || 0, both left at 0 here)
HandlerRecord(classification) ==
    [ frequency     |-> <<0, 1>>,
      amplitude     |-> <<0, 1>>,
      severityIndex |-> <<SeverityMap(classification), 1>>,
      aiInsights    |->
          [ pattern              |-> ToLowerCase(classification),
            confidence           |-> <<19, 20>>,
            recommendations      |-> GetRecommendationsForClassification(classification),
            predictedProgression |-> GetProgressionForClassification(classification) ] ]

\* the key of severityDistribution under which GET /api/tremor counts a
\* record: item.severityIndex < 20, >= 20 && < 40, >= 40 && < 70, >= 70
SeverityDistribution(severityIndex) ==
    IF RLess(severityIndex, <<20, 1>>) THEN "normal"
    ELSE IF RLess(severityIndex, <<40, 1>>) THEN "mild"
    ELSE IF RLess(severityIndex, <<70, 1>>) THEN "moderate"
    ELSE "severe"

\* dominant frequencies (Hz) of the feature vectors: none, and two in the
\* 3-12 Hz band the spectral scan is confined to
BenchFrequencies == {0, 5, 8}

\* lengths of the windows with one sample at full scale 1.0 and the rest 0
SpikeLengths == {4, 16, 64}

\* feature vectors of the medical firmware: the grid of the classifier bench
\* at each frequency, and the features of the spike windows
MedicalFeatures ==
    { [f EXCEPT !.dominantFrequency = <<d, 1>>] :
        f \in FixedFeatures, d \in BenchFrequencies }
    \cup { ExtractFeatures([i \in 1..n |-> IF i = 1 THEN Q ELSE 0],
                           [k \in 1..FirmwareBins(n) |-> 0]) : n \in SpikeLengths }

\* rms amplitudes of the server's feature vectors, in 1/Q
ServerAmplitudes == {0, 30 * Q, 60 * Q, 100 * Q, 160 * Q}

\* feature vectors extractEMGFeatures returns: severityIndex is its function
\* of rms, dominant frequency and zero-crossing rate; the window is one of
\* constant magnitude (mean = rms), and only a non-zero window crosses zero
ServerFeatures ==
    { f \in
      { [ frequency |-> <<d, 1>>, amplitude |-> <<rms, 1>>,
        severityIndex |-> ServerSeverityIndex(rms, <<d, 1>>, zcr),
        dominantFrequency |-> <<d, 1>>, spectralCentroid |-> <<d, 1>>,
        signalEnergy |-> (rms \div Q) * rms, zeroCrossingRate |-> zcr,
        rmsAmplitude |-> <<rms, 1>>, meanAmplitude |-> <<rms, 1>>,
        signalVariance |-> <<var, 1>> ] :
      rms \in ServerAmplitudes, d \in BenchFrequencies,
      zcr \in {<<0, 1>>, <<1, 200>>, <<1, 8>>}, var \in {0, 2000} } :
      f.rmsAmplitude[1] = 0 => f.zeroCrossingRate[1] = 0 }

\* body.classification of the requests to the local-classification handler
Classifications == {"NORMAL", "MILD", "MODERATE", "SEVERE", "severe", "Mild"}

InsightsInit ==
    /\ \/ /\ Bench("medical")
          /\ \E f1, f2 \in MedicalFeatures : call = <<f1, f2>>
       \/ /\ Bench("server")
          /\ \E f1, f2 \in ServerFeatures : call = <<f1, f2>>
       \/ /\ Bench("handler")
          /\ \E c1, c2 \in Classifications : call = <<c1, c2>>
    /\ ret = <<>>
    /\ pc = "called"

\* the record a pipeline produces for an input
RecordOf(pipeline, input) ==
    IF pipeline = "medical" THEN MedicalRecord(input)
    ELSE IF pipeline = "server" THEN ServerRecord(input)
    ELSE HandlerRecord(input)

\* two records of one pipeline; the handler's save() rejects a pattern
\* outside the schema's enum, and no record is produced
InsightsCall ==
    /\ pc = "called"
    /\ \E r \in {[i \in 1..2 |-> RecordOf(firmware, call[i])]} :
         /\ \A i \in 1..2 : r[i].aiInsights.pattern \in PatternEnum
         /\ ret' = r
    /\ pc' = "returned"
    /\ UNCHANGED << firmware, call >>
    /\ UNCHANGED deviceVars

SpecInsights == InsightsInit /\ [][InsightsCall]_vars

\* ---- the server's raw-EMG requests -------------------------------------
\* requests handled in one run of the server
MaxCalls == 3

\* the history of a filter object that shares the memory of the last one
SharedButterworthFilter(memory) == memory

\* const filter = new ButterworthFilter(): history = [0, 0, 0], whatever the
\* filter object of the previous call left behind (memory)
NewButterworthFilter(memory) == <<0, 0, 0>>

RECURSIVE SignalMap(_, _, _)
\* signal.map(sample => filter.filter(sample)) up to sample k: the outputs
\* (floored to 1/Q) and the history the filter object ends with
SignalMap(history, signal, k) ==
    IF k = 0 THEN [out |-> <<>>, history |-> history]
    ELSE LET run == SignalMap(history, signal, k - 1)
             h   == ShiftHistory(run.history, signal[k])
             y   == ServerFilterOutput([i \in 1..3 |-> Fin(h[i])])
         IN  [out |-> Append(run.out, y[2] \div Q), history |-> h]

\* simpleFFT(data, sampleRate).magnitude for 1, 2 or 4 samples, where the
\* angles are multiples of pi / 2: bin 0 is |sum|, bin 1 of four samples is
\* sqrt((x0 - x2)^2 + (x3 - x1)^2)
SimpleFFT(data) ==
    LET n == Len(data)
    IN  IF n = 4
        THEN << Abs(SumTo(data, n)),
                ISqrt((data[1] - data[3]) * (data[1] - data[3])
                      + (data[4] - data[2]) * (data[4] - data[2])) >>
        ELSE << Abs(SumTo(data, n)) >>

RECURSIVE IndexOf(_, _, _)
\* rawSignal.indexOf(val), searching from index k: the first index holding val
IndexOf(signal, val, k) ==
    IF signal[k] = val THEN k ELSE IndexOf(signal, val, k + 1)

\* (maxValue / 4095) * 100 with maxValue = Math.max(...rawSignal.map(Math.abs)),
\* a rational; samples in 1/Q
SaturationLevel(rawSignal) ==
    LET maxValue == CHOOSE m \in {Abs(rawSignal[i]) : i \in 1..Len(rawSignal)} :
                        \A i \in 1..Len(rawSignal) : Abs(rawSignal[i]) <= m
        ratio    == Rat(maxValue, 4095 * Q)
    IN  Rat(100 * ratio[1], ratio[2])

\* dataQuality from signalToNoiseRatio = 10 log10(signalPower / noisePower)
\* (0 when noisePower is 0): above 20, 10 and 5 dB, i.e. a power ratio above
\* 100, 10 and 10^0.5
DataQuality(signalPower, noisePower) ==
    IF noisePower[1] = 0 THEN "poor"
    ELSE IF RLess(Rat(100 * noisePower[1], noisePower[2]), signalPower) THEN "excellent"
    ELSE IF RLess(Rat(10 * noisePower[1], noisePower[2]), signalPower) THEN "good"
    ELSE IF RLess(Rat(3163 * noisePower[1], 1000 * noisePower[2]), signalPower)
    THEN "fair"
    ELSE "poor"

\* processRawEMGData(emgData) with the request's samples (in 1/Q) and sample
\* rate; memory is what the filter object of the previous call left.  Squares
\* are floored to 1/Q; history is the state of this call's filter object.
ProcessRawEMGData(memory, emgData) ==
    LET rawSignal == emgData.emgData
        n         == Len(rawSignal)
        run       == SignalMap(NewButterworthFilter(memory), rawSignal, n)
        filteredSignal == run.out
        signalPower == Rat(SumTo([i \in 1..n |->
                               (filteredSignal[i] * filteredSignal[i]) \div Q], n), n)
        noisePower  == Rat(SumTo([i \in 1..n |->
                               LET d == rawSignal[i]
                                        - filteredSignal[IndexOf(rawSignal, rawSignal[i], 1)]
                               IN  (d * d) \div Q], n), n)
    IN  [ rawSignal      |-> rawSignal,
          filteredSignal |-> filteredSignal,
          features       |-> ServerExtractFeatures(filteredSignal, emgData.sampleRate,
                                                   SimpleFFT(filteredSignal)),
          qualityMetrics |-> [ noisePower      |-> noisePower,
                               dataQuality     |-> DataQuality(signalPower, noisePower),
                               saturationLevel |-> SaturationLevel(rawSignal) ],
          history        |-> run.history ]

\* samples of the requests, in 1/Q
ServerSampleValues == {0 - 2000, 0, 1000}

\* the windows of the requests: every pair of samples, and the zero-centred
\* windows of four samples that start on a positive sample
ServerWindows ==
    [1..2 -> ServerSampleValues]
    \cup { w \in [1..4 -> ServerSampleValues] : w[1] > 0 /\ SumTo(w, 4) = 0 }

ServerInit ==
    /\ Bench("server")
    /\ call = <<>>
    /\ ret = <<>>
    /\ pc = "called"

\* handleRawEMGData(body) for a body with a deviceId and a non-empty emgData:
\* processRawEMGData, generateEMGInsights and the saved record; call is the
\* log of the requests, ret the log of what was computed for them
HandleRawEMGData ==
    /\ Len(call) < MaxCalls
    /\ \E w \in ServerWindows :
         \E p \in {ProcessRawEMGData(filterHistory,
                                     [emgData |-> w, sampleRate |-> SAMPLE_RATE])} :
           /\ call' = Append(call, w)
           /\ ret' = Append(ret, [ filteredSignal |-> p.filteredSignal,
                                   qualityMetrics |-> p.qualityMetrics,
                                   record         |-> ServerRecord(p.features) ])
           /\ filterHistory' = p.history
    /\ UNCHANGED << firmware, pc, emgBuffer, bufferIndex, windowBuffer, prevFeatures,
                    posted, lastDoc, overrun, layout, crashed, filteredValue,
                    currentClassification, serialOut, nStored, nWindows,
                    lastStoreIndex, accum, filled, analysed, rawLog,
                    now, lastSampleTime, lastSendTime >>

SpecServer == ServerInit /\ [][HandleRawEMGData]_vars

\* ---- the saturation metric on the windows the raw-EMG endpoint accepts --
\* values of body.emgData, in 1/Q: the endpoint checks that the array is
\* present and non-empty and nothing about its values, so besides the 12-bit
\* readings 0, 2048 and 4095 a body may carry 5000
RequestSamples == {0, 2048 * Q, 4095 * Q, 5000 * Q}

SaturationInit ==
    /\ Bench("server")
    /\ \E n \in 1..MaxLen : call \in [1..n -> RequestSamples]
    /\ ret = <<>>
    /\ pc = "called"

\* the saturationLevel processRawEMGData computes for the request
SaturationCall ==
    /\ pc = "called"
    /\ ret' = SaturationLevel(call)
    /\ pc' = "returned"
    /\ UNCHANGED << firmware, call >>
    /\ UNCHANGED deviceVars

SpecSaturation == SaturationInit /\ [][SaturationCall]_vars

\* ---- the rule-based classifier of main.cpp -----------------------------
\* float features[4] handed to classifyFromFeatures: meanAmp, rms and zcr
\* from small sets, domFreq every whole frequency up to MaxFreq (domFreq is
\* SAMPLE_RATE / (2 * length), an int, times the crossing count)
LocalFeatures ==
    { <<Rat(m, 2), r, Rat(z, 4), d>> :
        m \in {0, 1}, r \in {0, 2 * Q}, z \in {0, 1}, d \in 0..MaxFreq }

LocalClassifierInit ==
    /\ Bench("local")
    /\ call \in LocalFeatures
    /\ ret = <<>>
    /\ pc = "called"

\* TremorClass classification = classifyFromFeatures(features)
LocalClassifierCall ==
    /\ pc = "called"
    /\ ret' = ClassifyFromFeatures(call)
    /\ pc' = "returned"
    /\ UNCHANGED << firmware, call >>
    /\ UNCHANGED deviceVars

SpecLocalClassifier == LocalClassifierInit /\ [][LocalClassifierCall]_vars

\* ---- part_003: the in-memory streams of the cursor store -----------------
\* const MAX_STREAM_WINDOW = 600, scaled
MAX_STREAM_WINDOW == 3

\* samples appended in one run
MaxAppends == 7

\* const next = [...stream, sample];
\* if (next.length > windowSize) next.splice(0, next.length - windowSize)
AppendSample(stream, sample, windowSize) ==
    LET next == Append(stream, sample)
    IN  IF Len(next) > windowSize
        THEN SubSeq(next, Len(next) - windowSize + 1, Len(next))
        ELSE next

\* eogStream: [], gazeStream: []; call is the log of the appends
StreamInit ==
    /\ Bench("store")
    /\ call = <<>>
    /\ ret = [eogStream |-> <<>>, gazeStream |-> <<>>]
    /\ pc = "run"

\* appendEogSample(sample) with the default windowSize; the sample is named
\* by its position in the log
AppendEogSample ==
    /\ Len(call) < MaxAppends
    /\ call' = Append(call, "eog")
    /\ ret' = [ret EXCEPT !.eogStream =
                   AppendSample(@, Len(call) + 1, MAX_STREAM_WINDOW)]
    /\ UNCHANGED << firmware, pc >>
    /\ UNCHANGED deviceVars

\* appendGazePoint(point) with the default windowSize
AppendGazePoint ==
    /\ Len(call) < MaxAppends
    /\ call' = Append(call, "gaze")
    /\ ret' = [ret EXCEPT !.gazeStream =
                   AppendSample(@, Len(call) + 1, MAX_STREAM_WINDOW)]
    /\ UNCHANGED << firmware, pc >>
    /\ UNCHANGED deviceVars

SpecStream == StreamInit /\ [][AppendEogSample \/ AppendGazePoint]_vars

\* ---- main.cpp: classifyTremorLocally over successive batches --------------
\* features of a batch: domFreq is 2 Hz (SAMPLE_RATE / (2 * 50)) per zero
\* crossing
BatchFeatures ==
    { <<Rat(1, 2), 2 * Q, Rat(IF d > 0 THEN 1 ELSE 0, 4), d>> : d \in {0, 2, 4, 6, 8} }

\* TremorClass currentClassification = NORMAL; call is the log of the
\* features of the batches, ret the log of their classes
LocalBatchInit ==
    /\ Bench("classifyTremorLocally")
    /\ call = <<>>
    /\ ret = <<>>
    /\ pc = "run"

\* classifyTremorLocally() on a full batch with the features extractFeatures
\* returned
LocalBatchCall ==
    /\ Len(call) < MaxCalls
    /\ \E features \in BatchFeatures :
         \E r \in {ClassifyTremorLocally(currentClassification, serialOut, features)} :
            /\ call' = Append(call, features)
            /\ ret' = Append(ret, ClassifyFromFeatures(features))
            /\ currentClassification' = r[1]
            /\ serialOut' = r[2]
    /\ UNCHANGED << firmware, pc, emgBuffer, bufferIndex, filterHistory,
                    windowBuffer, prevFeatures, posted, lastDoc, overrun, layout,
                    crashed, filteredValue, nStored, nWindows, lastStoreIndex,
                    accum, filled, analysed, rawLog, now, lastSampleTime,
                    lastSendTime >>

SpecLocalBatch == LocalBatchInit /\ [][LocalBatchCall]_vars

\* ---- route.ts: POST /api/tremor and the store ------------------------------
\* the deviceSchema validation of device.save(): deviceId and name are given
\* by every caller, userId is required
DeviceValid(device) == device.userId # "null"

\* the tremorDataSchema validation of tremorData.save(): deviceId and userId
\* required, frequency in [0,50], amplitude >= 0, severityIndex in [0,100],
\* aiInsights.pattern in the enum and confidence in [0,1] when given
TremorDataValid(doc) ==
    /\ doc.userId # "null"
    /\ RLeq(<<0, 1>>, doc.data.frequency) /\ RLeq(doc.data.frequency, <<50, 1>>)
    /\ RLeq(<<0, 1>>, doc.data.amplitude)
    /\ RLeq(<<0, 1>>, doc.data.severityIndex)
    /\ RLeq(doc.data.severityIndex, <<100, 1>>)
    /\ doc.data.aiInsights.pattern \in PatternEnum \cup {"none"}
    /\ RLeq(<<0, 1>>, doc.data.aiInsights.confidence)
    /\ RLeq(doc.data.aiInsights.confidence, <<1, 1>>)

\* no document in the devices collection for a deviceId
NoDevice == [registered |-> FALSE, userId |-> "null", lastSeen |-> 0, isActive |-> FALSE]

\* let device = await Device.findOne({ deviceId }); if (!device) { device =
\* new Device({..., userId, isActive: true, lastSeen: new Date()}) } else {
\* device.lastSeen = new Date(); device.isActive = true }
FoundOrNew(store, deviceId, userId, t) ==
    IF store.devices[deviceId].registered
    THEN [store.devices[deviceId] EXCEPT !.lastSeen = t, !.isActive = TRUE]
    ELSE [registered |-> TRUE, userId |-> userId, lastSeen |-> t, isActive |-> TRUE]

\* await device.save(); ... await tremorData.save(); return success: a save
\* that fails validation throws, and POST's catch answers 500
SaveBoth(store, deviceId, device, data) ==
    LET doc == [deviceId |-> deviceId, userId |-> device.userId, data |-> data]
    IN  IF ~DeviceValid(device) THEN [store EXCEPT !.status = 500]
        ELSE IF ~TremorDataValid(doc)
        THEN [store EXCEPT !.devices[deviceId] = device, !.status = 500]
        ELSE [store EXCEPT !.devices[deviceId] = device,
                           !.tremorData = Append(@, doc), !.status = 200]

\* async function handleLocalClassification(body)
HandleLocalClassification(store, body, t) ==
    IF body.deviceId = "" \/ body.classification = ""
    THEN [store EXCEPT !.status = 400]
    ELSE SaveBoth(store, body.deviceId,
                  FoundOrNew(store, body.deviceId, "null", t),
                  [HandlerRecord(body.classification)
                       EXCEPT !.frequency = <<body.frequency[1], 1>>])

\* async function handleRawEMGData(body), with the store
HandleRawEMGDataStore(store, body, t) ==
    IF body.deviceId = "" \/ body.emgData = <<>>
    THEN [store EXCEPT !.status = 400]
    ELSE IF ~store.devices[body.deviceId].registered /\ store.patient = "null"
    THEN [store EXCEPT !.status = 400]
    ELSE SaveBoth(store, body.deviceId,
                  FoundOrNew(store, body.deviceId, store.patient, t),
                  ServerRecord(ProcessRawEMGData(<<0, 0, 0>>,
                      [emgData |-> body.emgData, sampleRate |-> SAMPLE_RATE]).features))

\* async function handleProcessedData(body): a body without aiInsights
HandleProcessedData(store, body, t) ==
    IF body.deviceId = "" \/ body.frequency = <<>>
    THEN [store EXCEPT !.status = 400]
    ELSE IF ~store.devices[body.deviceId].registered /\ store.patient = "null"
    THEN [store EXCEPT !.status = 400]
    ELSE SaveBoth(store, body.deviceId,
                  FoundOrNew(store, body.deviceId, store.patient, t),
                  [ frequency     |-> <<body.frequency[1], 1>>,
                    amplitude     |-> <<1, 1>>,
                    severityIndex |-> <<30, 1>>,
                    aiInsights    |-> [ pattern |-> "none", confidence |-> <<0, 1>>,
                                        recommendations |-> <<>>,
                                        predictedProgression |-> "" ] ])

\* the deviceIds of the requests
DeviceIds == {"esp-1", "esp-2"}

\* request bodies: "" and <<>> are fields the body does not carry; frequency
\* 60 is above the schema's maximum, TREMOR outside the pattern enum
Bodies ==
    { [dataType |-> "local_classification", deviceId |-> d, classification |-> c,
       frequency |-> <<5>>, emgData |-> <<>>] :
          d \in DeviceIds, c \in {"SEVERE", "TREMOR"} }
    \cup { [dataType |-> "local_classification", deviceId |-> "",
            classification |-> "SEVERE", frequency |-> <<5>>, emgData |-> <<>>],
           [dataType |-> "local_classification", deviceId |-> "esp-1",
            classification |-> "", frequency |-> <<5>>, emgData |-> <<>>],
           [dataType |-> "raw_emg", deviceId |-> "esp-1", classification |-> "",
            frequency |-> <<>>, emgData |-> <<>>] }
    \cup { [dataType |-> "raw_emg", deviceId |-> d, classification |-> "",
            frequency |-> <<>>, emgData |-> <<1000, 0, 1000, 0 - 2000>>] :
          d \in DeviceIds }
    \cup { [dataType |-> "", deviceId |-> d, classification |-> "",
            frequency |-> f, emgData |-> <<>>] :
          d \in DeviceIds, f \in {<<>>, <<5>>, <<60>>} }

\* the collections before the first request: a patient user or none, esp-1
\* registered to a user or no device; ret is the store with the status of the
\* last answer, call the last body
StoreInit ==
    /\ Bench("route")
    /\ call = <<>>
    /\ \E patient \in {"null", "u1"}, known \in BOOLEAN :
         ret = [ devices    |-> [d \in DeviceIds |->
                                   IF known /\ d = "esp-1"
                                   THEN [registered |-> TRUE, userId |-> "u1",
                                         lastSeen |-> 0, isActive |-> FALSE]
                                   ELSE NoDevice],
                 tremorData |-> <<>>,
                 patient    |-> patient,
                 status     |-> 0,
                 requests   |-> 0 ]
    /\ pc = "run"

\* export async function POST(request)
POST ==
    /\ ret.requests < MaxCalls
    /\ \E body \in Bodies :
         \E store \in {[ret EXCEPT !.requests = @ + 1]} :
            /\ call' = <<body>>
            /\ ret' = IF body.dataType = "local_classification"
                         \/ body.classification # ""
                      THEN HandleLocalClassification(store, body, store.requests)
                      ELSE IF body.dataType \in {"filtered_emg", "raw_emg"}
                      THEN HandleRawEMGDataStore(store, body, store.requests)
                      ELSE HandleProcessedData(store, body, store.requests)
    /\ UNCHANGED << firmware, pc >>
    /\ UNCHANGED deviceVars

SpecStore == StoreInit /\ [][POST]_vars

\* ---- README.md: the serial bridge -----------------------------------------
\* lines of one serial stream
MaxLines == 2

\* values Date.now() takes during a run: 0 .. MaxTicks
MaxTicks == 1

RECURSIVE DecodeBytes(_)
\* UTF-8 decoding of complete input: "hi" "lo" are the two bytes of the
\* character "e2", a byte of the pair on its own decodes to U+FFFD ("?"),
\* any other byte is the character of the same name
DecodeBytes(bytes) ==
    IF bytes = <<>> THEN <<>>
    ELSE IF Head(bytes) = "hi" /\ Len(bytes) >= 2 /\ bytes[2] = "lo"
    THEN <<"e2">> \o DecodeBytes(Tail(Tail(bytes)))
    ELSE IF Head(bytes) \in {"hi", "lo"} THEN <<"?">> \o DecodeBytes(Tail(bytes))
    ELSE <<Head(bytes)>> \o DecodeBytes(Tail(bytes))

\* decoding every chunk on its own, without the bytes held back
DecodeChunkAlone(pending, chunk) == [text |-> DecodeBytes(chunk), pending |-> <<>>]

\* decoder.decode(chunk, { stream: true }): a lead byte at the end of the
\* input is held back for the next call
Decode(pending, chunk) ==
    LET all  == pending \o chunk
        hold == all # <<>> /\ all[Len(all)] = "hi"
    IN  [ text    |-> DecodeBytes(IF hold THEN SubSeq(all, 1, Len(all) - 1) ELSE all),
          pending |-> IF hold THEN <<"hi">> ELSE <<>> ]

RECURSIVE IndexOfNewline(_, _)
\* buffer.indexOf("\n"), counted from 1; 0 for -1
IndexOfNewline(buffer, from) ==
    IF from > Len(buffer) THEN 0
    ELSE IF buffer[from] = "\n" THEN from
    ELSE IndexOfNewline(buffer, from + 1)

RECURSIVE Trim(_)
\* String.prototype.trim: " " stands for every white-space character
Trim(s) ==
    IF s = <<>> THEN s
    ELSE IF Head(s) = " " THEN Trim(Tail(s))
    ELSE IF s[Len(s)] = " " THEN Trim(SubSeq(s, 1, Len(s) - 1))
    ELSE s

\* JSON.parse(line) and "Array.isArray(payload) ? payload : [payload]" on the
\* lines of this alphabet: "c" is a channels array member, "t" a timestamp
\* member, "e2" a member with a two-byte name; ok = FALSE is the SyntaxError
JsonParse(line) ==
    LET with    == [channels |-> TRUE, timestamp |-> <<"given">>]
        without == [channels |-> TRUE, timestamp |-> <<>>]
    IN  IF line = <<"{", "c", "}">> THEN [ok |-> TRUE, messages |-> <<without>>]
        ELSE IF line = <<"{", "c", "e2", "}">> THEN [ok |-> TRUE, messages |-> <<without>>]
        ELSE IF line = <<"{", "c", "t", "}">> THEN [ok |-> TRUE, messages |-> <<with>>]
        ELSE IF line = <<"{", "}">>
        THEN [ok |-> TRUE, messages |-> <<[channels |-> FALSE, timestamp |-> <<>>]>>]
        ELSE IF line = <<"[", "{", "c", "}", "{", "c", "t", "}", "]">>
        THEN [ok |-> TRUE, messages |-> <<without, with>>]
        ELSE [ok |-> FALSE, messages |-> <<>>]

RECURSIVE Broadcasts(_, _, _)
\* messages.forEach: the strings broadcast for the first k messages of a line
\* handled at time t; timestamp: message.timestamp ?? Date.now()
Broadcasts(messages, k, t) ==
    IF k = 0 THEN <<>>
    ELSE LET message == messages[k]
         IN  IF ~message.channels THEN Broadcasts(messages, k - 1, t)
             ELSE Append(Broadcasts(messages, k - 1, t),
                         [ timestamp |-> IF message.timestamp = <<>> THEN <<"now", t>>
                                         ELSE message.timestamp,
                           channels  |-> TRUE ])

RECURSIVE Drain(_, _, _)
\* the while loop of the data handler: <<buffer, broadcasts>> when no
\* newline is left in the buffer; the recursion continues on
\* buffer.slice(newlineIndex + 1)
Drain(buffer, sent, t) ==
    LET newlineIndex == IndexOfNewline(buffer, 1)
        line         == Trim(SubSeq(buffer, 1, newlineIndex - 1))
        payload      == JsonParse(line)
    IN  IF newlineIndex = 0 THEN <<buffer, sent>>
        ELSE Drain(SubSeq(buffer, newlineIndex + 1, Len(buffer)),
                   IF line # <<>> /\ payload.ok
                   THEN sent \o Broadcasts(payload.messages, Len(payload.messages), t)
                   ELSE sent,
                   t)

\* port.on("data", (chunk) => ...) at time t on the bridge state s
OnData(s, chunk, t) ==
    LET decoded == Decode(s.pending, chunk)
        drained == Drain(s.buffer \o decoded.text, s.broadcasts, t)
    IN  [pending |-> decoded.pending, buffer |-> drained[1], broadcasts |-> drained[2]]

\* the lines the device may write, as bytes without the newline
SerialLines ==
    { <<"{", "c", "}">>, <<"{", "c", "t", "}">>, <<"{", "}">>, <<"{", "c">>, <<>>,
      <<" ", "{", "c", "}", " ">>, <<"{", "c", "hi", "lo", "}">>,
      <<"[", "{", "c", "}", "{", "c", "t", "}", "]">> }

RECURSIVE Joined(_, _, _)
\* the first k lines of ls, each followed by a newline but for the last one
\* if it is not terminated
Joined(ls, k, terminated) ==
    IF k = 0 THEN <<>>
    ELSE Joined(ls, k - 1, TRUE) \o ls[k] \o (IF terminated THEN <<"\n">> ELSE <<>>)

\* the byte streams of a run
SerialStreams ==
    UNION { { Joined(ls, n, term) : ls \in [1..n -> SerialLines], term \in BOOLEAN } :
            n \in 1..MaxLines }

\* const decoder = new TextDecoder(); let buffer = "": call is <<stream,
\* bytes delivered>>, ret the state of the bridge
BridgeInit ==
    /\ Bench("bridge")
    /\ \E stream \in SerialStreams : call = <<stream, 0>>
    /\ ret = [pending |-> <<>>, buffer |-> <<>>, broadcasts |-> <<>>]
    /\ pc = "run"

\* one data event with the next bytes of the stream, in the same millisecond
\* as the last event or a later one
PortOnData ==
    /\ call[2] < Len(call[1])
    /\ \E size \in 1..(Len(call[1]) - call[2]), t \in now..MaxTicks :
         /\ call' = <<call[1], call[2] + size>>
         /\ now' = t
         /\ ret' = OnData(ret, SubSeq(call[1], call[2] + 1, call[2] + size), t)
    /\ UNCHANGED << firmware, pc, emgBuffer, bufferIndex, filterHistory,
                    windowBuffer, prevFeatures, posted, lastDoc, overrun, layout,
                    crashed, filteredValue, currentClassification, serialOut,
                    nStored, nWindows, lastStoreIndex, accum, filled, analysed,
                    rawLog, lastSampleTime, lastSendTime >>

SpecBridge == BridgeInit /\ [][PortOnData]_vars

(***************************************************************************)
(* The properties.                                                         *)
(***************************************************************************)
RECURSIVE SeqSum(_)
SeqSum(s) == IF s = <<>> THEN 0 ELSE Head(s) + SeqSum(Tail(s))

RECURSIVE Pow(_, _)
Pow(x, e) == IF e = 0 THEN 1 ELSE x * Pow(x, e - 1)

C2_AnalysedWindowIsAllAccumulatedSamples ==
    nWindows > 0 => analysed = filled

\* the exponential moving average of rawLog[1..n][field], times 5^n * WINDOW_SIZE:
\* A_n = sum over k of 0.2 * 0.8^(n-k) * x_k
RECURSIVE EmaScaled(_, _, _)
EmaScaled(field, n, k) ==
    IF k = 0 THEN 0
    ELSE EmaScaled(field, n, k - 1)
         + rawLog[k][field][1] * (WINDOW_SIZE \div rawLog[k][field][2])
             * Pow(4, n - k) * Pow(5, k - 1)

IsEma(value, field) ==
    value[1] * Pow(5, Len(rawLog)) * WINDOW_SIZE
        = value[2] * EmaScaled(field, Len(rawLog), Len(rawLog))

\* C5: after the n-th completed window the reported rmsAmplitude is
\* A_n = 0.8 * A_(n-1) + 0.2 * rms(window n), A_0 = 0, likewise meanAmplitude;
\* the smoothing state is updated once per completed window; classification
\* and severityIndex are computed from the smoothed values.
C5_SmoothingIsExponentialAverage ==
    firmware = "medical" =>
        /\ Len(rawLog) = nWindows
        /\ IsEma(prevFeatures.rmsAmplitude, 2)
        /\ IsEma(prevFeatures.meanAmplitude, 1)
        /\ nWindows > 0 =>
             /\ rawLog[nWindows][2] = <<ISqrt(SeqSum(SqSeq(analysed)) \div Len(analysed)), 1>>
             /\ rawLog[nWindows][1] = Rat(SeqSum(AbsSeq(analysed)), Len(analysed))
             /\ lastDoc.amplitude = prevFeatures.rmsAmplitude
             /\ lastDoc.severityIndex = SeverityIndex(prevFeatures)
             /\ lastDoc.aiInsights.pattern = ClassifyTremor(prevFeatures)

\* two windows completed, the second with another rms than the first
C5_TwoWindowsSmoothed ==
    /\ firmware = "medical"
    /\ nWindows = 2
    /\ rawLog[1][2] # rawLog[2][2]
    /\ rawLog[2][2][1] > 0
    /\ prevFeatures.rmsAmplitude # rawLog[2][2]

\* ---- the filters (SpecFilter) -----------------------------------------
InputAt(n) == IF n >= 1 THEN call[n][2] ELSE 0

OutputAt(n) == IF n >= 1 THEN ret.out[n][2] ELSE 0

\* C3: the n-th output equals b0 x[n] + b1 x[n-1] + b2 x[n-2] - a1 y[n-1]
\* - a2 y[n-2], y the filter's own previous outputs, zero initial history
\* (outputs are in 1/Q, so both sides are multiplied by Q).
C3_FilterIsTrueIIR ==
    \A n \in 1..Len(ret.out) :
        (\A k \in 1..n : IsFinite(call[k]) /\ IsFinite(ret.out[k])) =>
            Q * OutputAt(n)
                = Q * (b[1] * InputAt(n) + b[2] * InputAt(n - 1) + b[3] * InputAt(n - 2))
                  - a[2] * OutputAt(n - 1) - a[3] * OutputAt(n - 2)

Sanitize(x) == IF IsFinite(x) THEN x ELSE Fin(0)

\* the outputs of the implementation's filter on the samples xs, from history h
RECURSIVE FilterRun(_, _, _)
FilterRun(impl, h, xs) ==
    IF xs = <<>> THEN <<>>
    ELSE LET h2 == ShiftHistory(h, Head(xs))
         IN  <<FilterOutput(impl, h2)>> \o FilterRun(impl, h2, Tail(xs))

\* C4: a NaN or infinite sample is treated as 0: every output is finite and
\* equals the output obtained had the bad samples been 0.
C4_BadSampleTreatedAsZero ==
    /\ \A n \in 1..Len(ret.out) : IsFinite(ret.out[n])
    /\ ret.out = FilterRun(firmware, ZeroHistory,
                           [i \in 1..Len(call) |-> Sanitize(call[i])])

\* ---- the time-domain features (SpecFeatures) ------------------------
SignChanges(x) ==
    {i \in 2..Len(x) : (x[i-1] > 0 /\ x[i] < 0) \/ (x[i-1] < 0 /\ x[i] > 0)}

\* C6: zeroCrossingRate = (number of sign changes between neighbours) / N.
C6_ZeroCrossingRateIsCountOverN ==
    pc = "returned" =>
        ret.zeroCrossingRate = Rat(Cardinality(SignChanges(call)), Len(call))

\* C7: meanAmplitude = (sum of |x[i]| over all i) / N and
\* rmsAmplitude = sqrt((sum of x[i]^2 over all i) / N) in every extractor
\* (the ML endpoint computes the rms only).
C7_AmplitudesCoverWholeWindow ==
    pc = "returned" =>
        /\ ret.rmsAmplitude = <<ISqrt(SeqSum(SqSeq(call)) \div Len(call)), 1>>
        /\ firmware # "ml" =>
             ret.meanAmplitude = Rat(SeqSum(AbsSeq(call)), Len(call))

\* ---- the spectral part (SpecSpectral) -----------------------------------
CallBins ==
    IF firmware = "server" THEN ServerBins(call.length) ELSE FirmwareBins(call.length)

CallBand == BandBins(CallBins, call.sampleRate, call.length)

BinFrequency(i) == Rat(i * call.sampleRate, call.length)

\* C8: dominantFrequency is 0 or the frequency of a bin in [3, 12] Hz, and it
\* is the in-band bin of maximum magnitude whenever some in-band bin has a
\* magnitude > 0.
C8_DominantFrequencyInBand ==
    pc = "returned" =>
        /\ \/ ret.dominantFrequency = <<0, 1>>
           \/ /\ \E i \in CallBand : ret.dominantFrequency = BinFrequency(i)
              /\ RLeq(<<3, 1>>, ret.dominantFrequency)
              /\ RLeq(ret.dominantFrequency, <<12, 1>>)
        /\ (\E i \in CallBand : call.mags[i + 1] > 0) =>
             \E i \in CallBand :
                /\ ret.dominantFrequency = BinFrequency(i)
                /\ \A j \in CallBand : call.mags[j + 1] <= call.mags[i + 1]

\* a partial or full window with content in the band and more outside it
C8_InBandPeakBesideLargerOutOfBand ==
    /\ pc = "returned"
    /\ \E i \in CallBand : call.mags[i + 1] > 0
    /\ \E j \in (1..(CallBins - 1)) \ CallBand :
          \A i \in CallBand : call.mags[j + 1] > call.mags[i + 1]
    /\ ret.dominantFrequency # <<0, 1>>

RECURSIVE SumOver(_, _)
\* sum of f[i] over the finite set S
SumOver(S, f) ==
    IF S = {} THEN 0
    ELSE LET i == CHOOSE j \in S : TRUE IN f[i] + SumOver(S \ {i}, f)

InBandTotal == SumOver(CallBand, [i \in CallBand |-> call.mags[i + 1]])

InBandWeighted == SumOver(CallBand, [i \in CallBand |-> i * call.mags[i + 1]])

\* C9: when the total in-band magnitude is 0, spectralCentroid = 0 and
\* dominantFrequency = 0; otherwise spectralCentroid is the magnitude-weighted
\* mean of the in-band bin frequencies and lies within [3, 12].
C9_CentroidDefinedAndInBand ==
    pc = "returned" =>
        IF InBandTotal = 0
        THEN ret.spectralCentroid = <<0, 1>> /\ ret.dominantFrequency = <<0, 1>>
        ELSE /\ ret.spectralCentroid
                  = Rat(InBandWeighted * call.sampleRate, call.length * InBandTotal)
             /\ RLeq(<<3, 1>>, ret.spectralCentroid)
             /\ RLeq(ret.spectralCentroid, <<12, 1>>)

\* content in two in-band bins and outside the band: the centroid lies
\* strictly between two bins
C9_CentroidBetweenBins ==
    /\ pc = "returned"
    /\ InBandTotal > 0
    /\ \A i \in CallBand : ret.spectralCentroid # BinFrequency(i)
    /\ \E j \in (1..(CallBins - 1)) \ CallBand : call.mags[j + 1] > 0

\* no bin in the band, or none with content: the zero case
C9_NoInBandContent ==
    /\ pc = "returned"
    /\ InBandTotal = 0
    /\ \E j \in 1..CallBins : call.mags[j] > 0

\* ---- the weighted-score classifier (SpecClassifier) ----------------
Rank(class) ==
    IF class = "normal" THEN 0 ELSE IF class = "mild" THEN 1
    ELSE IF class = "moderate" THEN 2 ELSE 3

\* C10: with the other features held fixed, raising dominantFrequency within
\* 0..12 Hz never lowers the class ordinal (normal < mild < moderate < severe).
C10_ClassMonotoneInFrequency ==
    pc = "returned" /\ RLeq(call.lo, call.hi) /\ RLeq(call.hi, <<12, 1>>) =>
        Rank(ret.lo) <= Rank(ret.hi)

\* C10 as amended: raising dominantFrequency never lowers the class ordinal as
\* long as the two frequencies lie on the same side of the 8 Hz end of the
\* tremor-frequency indicator: both in [0, 8] or both above 8 Hz.
C10_ClassMonotoneWithinIndicatorRange ==
    pc = "returned" /\ RLeq(call.lo, call.hi)
      /\ (RLeq(call.hi, <<8, 1>>) \/ RLess(<<8, 1>>, call.lo)) =>
        Rank(ret.lo) <= Rank(ret.hi)

\* a rise of the frequency within [0, 8] Hz that raises the class
C10_ClassRisesWithFrequency ==
    /\ pc = "returned"
    /\ RLess(call.lo, call.hi)
    /\ RLeq(call.hi, <<8, 1>>)
    /\ Rank(ret.lo) < Rank(ret.hi)

\* ---- the records of the pipelines ----------------------------------------
\* the two records of a returned call are ordered by index and by class
IndexOrdersClass ==
    \A i, j \in 1..2 :
        RLeq(ret[i].severityIndex, ret[j].severityIndex)
            => Rank(ret[i].aiInsights.pattern) <= Rank(ret[j].aiInsights.pattern)

\* C11 as stated: for any two records of one pipeline, the record with the
\* higher severityIndex never has the less severe class.  The medical
\* firmware takes the class from the weighted score and the index from
\* rms * 10 + dominantFrequency * 2, and the two disagree.
C11_ClassMonotoneInSeverityIndex ==
    pc = "returned" => IndexOrdersClass

\* C11 amended: for any two records of the server's raw-EMG pipeline, the
\* record with the higher severityIndex never has the less severe class.
C11_ServerClassMonotoneInSeverityIndex ==
    (pc = "returned" /\ firmware = "server") => IndexOrdersClass

\* two server records, the index and the class both strictly higher in the
\* second, the second above the "severe" threshold
C11_ServerIndexAndClassRise ==
    /\ pc = "returned"
    /\ firmware = "server"
    /\ RLess(ret[1].severityIndex, ret[2].severityIndex)
    /\ ret[1].aiInsights.pattern = "moderate"
    /\ ret[2].aiInsights.pattern = "severe"

\* clamp(rms * 10 + dominantFrequency * 2, 0, 100) for an rms r (in 1/Q) and a
\* frequency d, both rationals
ClampedIndex(r, d) ==
    LET v == Rat(10 * r[1] * d[2] + 2 * d[1] * Q * r[2], Q * r[2] * d[2])
    IN  IF RLess(<<100, 1>>, v) THEN <<100, 1>>
        ELSE IF RLess(v, <<0, 1>>) THEN <<0, 1>> ELSE v

\* C12: in the records of the medical firmware and of the server alike,
\* severityIndex = clamp(rms * 10 + dominantFrequency * 2, 0, 100) of the
\* record's own rms amplitude and dominant frequency.  The server computes
\* (rms / 100) * 50 + (dominantFreq / 10) * 30 + (zcr * 100) * 20 instead.
C12_SeverityIndexIsClampedSum ==
    (pc = "returned" /\ firmware \in {"medical", "server"})
        => \A i \in 1..2 :
             ret[i].severityIndex = ClampedIndex(ret[i].amplitude, ret[i].frequency)

\* C13: the confidence of every record lies in [0, 1]; in the score-based
\* records (medical firmware, server) it lies in [0, 0.95], and in the records
\* of the local-classification handler it is 0.95.  generateInsights takes
\* min(0.95, 0.7 + entropy / 20) with no lower clamp.
C13_ConfidenceWithinBounds ==
    pc = "returned"
        => \A i \in 1..2 :
             LET c == ret[i].aiInsights.confidence
             IN  /\ RLeq(<<0, 1>>, c) /\ RLeq(c, <<1, 1>>)
                 /\ firmware \in {"medical", "server"} => RLeq(c, <<19, 20>>)
                 /\ firmware = "handler" => c = <<19, 20>>

\* C14: the insight is a lookup on the class: in the records of the medical
\* firmware, the server and the local-classification handler alike, the
\* recommendations and the predictedProgression are the canned texts (those of
\* the firmware's generateInsights) of the record's own pattern.  The handler
\* lower-cases the classification for the pattern but looks the texts up by
\* the classification as sent.
C14_TextsBelongToOwnPattern ==
    pc = "returned"
        => \A i \in 1..2 :
             LET ins == ret[i].aiInsights
             IN  /\ ins.recommendations = Recommendations(ins.pattern)
                 /\ ins.predictedProgression = PredictedProgression(ins.pattern)

\* ---- the server's raw-EMG requests (SpecServer) -----------------------
\* (sum over i of (rawSignal[i] - filteredSignal[i])^2) / n, squares floored
\* to 1/Q
AlignedNoisePower(rawSignal, filteredSignal) ==
    Rat(SumTo([i \in 1..Len(rawSignal) |->
                 ((rawSignal[i] - filteredSignal[i]) * (rawSignal[i] - filteredSignal[i]))
                     \div Q], Len(rawSignal)),
        Len(rawSignal))

\* C15: noisePower is the mean of the squared differences between each raw
\* sample and the filtered sample at the same index, windows with repeated
\* sample values included.  The code pairs a raw sample with the filtered
\* sample at the first index that holds the same raw value.
C15_NoisePowerIsIndexAligned ==
    \A k \in 1..Len(ret) :
        ret[k].qualityMetrics.noisePower = AlignedNoisePower(call[k], ret[k].filteredSignal)

\* ---- the saturation metric (SpecSaturation) ---------------------------
\* C16: for every window the raw-EMG endpoint accepts, saturationLevel lies
\* in [0, 100], and it is 100 when the window contains a sample of 4095.  The
\* endpoint accepts samples beyond the 12-bit range, and one of them makes the
\* level exceed 100.
C16_SaturationLevelWithinPercentRange ==
    pc = "returned"
        => /\ RLeq(<<0, 1>>, ret) /\ RLeq(ret, <<100, 1>>)
           /\ (\E i \in 1..Len(call) : call[i] = 4095 * Q) => ret = <<100, 1>>

\* ---- the rule-based classifier (SpecLocalClassifier) ------------------
\* C17: classifyFromFeatures returns NORMAL for a dominant frequency below
\* 1 Hz, MILD in [1, 3), SEVERE in [3, 6] and NORMAL above 6 Hz, whatever the
\* other features are.
C17_ClassFollowsFrequencyRanges ==
    pc = "returned"
        => ret = IF call[4] < 1 THEN "NORMAL"
                 ELSE IF call[4] < 3 THEN "MILD"
                 ELSE IF call[4] <= 6 THEN "SEVERE"
                 ELSE "NORMAL"

\* a vector at the closed upper end of the severe range has been classified
C17_SixHertzIsSevere ==
    pc = "returned" /\ firmware = "local" /\ Len(call) = 4 /\ call[4] = 6
        /\ ret = "SEVERE"

\* ---- the clock of the medical firmware (Spec) --------------------------
\* C18: a transmission does not hold up the sampling: the pass of loop() that
\* reads the next sample starts no later than one 200 Hz sampling period
\* (SAMPLE_DELAY ms) after the previous sample was read, also when the record
\* of a completed window was sent in between.  http.POST runs inside the
\* pass and the next pass starts only after it has returned.
C18_NextSampleWithinOnePeriod ==
    (firmware = "medical" /\ nStored > 0)
        => 1000 * now - lastSampleTime <= 1000 * SAMPLE_DELAY

\* C19: processRawEMGData is idempotent and keeps no state between calls:
\* any two requests of a run that carry the same samples (at the same sample
\* rate) get the same filtered signal, the same features and insights and the
\* same quality metrics, whatever was processed before and between them
\* (processRawEMGData does not read the deviceId: the requests of other
\* sources are the other windows of the run).
C19_SameSamplesSameResult ==
    \A i, j \in 1..Len(ret) : call[i] = call[j] => ret[i] = ret[j]

\* a window has been processed twice with a different window in between, its
\* filter object having ended with a non-zero history
C19_RepeatedAfterOtherWindow ==
    /\ firmware = "server"
    /\ Len(ret) = 3
    /\ call[1] = call[3]
    /\ call[2] # call[1]
    /\ filterHistory # <<0, 0, 0>>
    /\ \E k \in 1..Len(ret[2].filteredSignal) : ret[2].filteredSignal[k] # 0

\* a window of four samples around zero that changes sign at least twice,
\* every sample below 5 in magnitude
IsNoise(w) ==
    /\ Len(w) = 4
    /\ SumTo(w, 4) = 0
    /\ \A i \in 1..4 : Abs(w[i]) < 5 * Q
    /\ ZeroCrossings(w, 4) >= 2

\* C20: a window of zero-centred random noise of amplitude below 5, sampled
\* at 200 Hz, is classified normal with a severityIndex below 20.  The
\* server's index adds 2000 times the zero-crossing rate, which alone puts a
\* window that crosses zero above every threshold.
C20_NoiseIsNormalAndLowIndex ==
    \A k \in 1..Len(ret) :
        IsNoise(call[k])
            => /\ ret[k].record.aiInsights.pattern = "normal"
               /\ RLess(ret[k].record.severityIndex, <<20, 1>>)

\* the sampling period of 200 Hz in the unit of lastSampleTime: microseconds
\* in part_000, milliseconds in main.cpp
SamplingPeriod == IF firmware = "medical" THEN 1000 * (1000 \div SAMPLE_RATE)
                  ELSE 1000 \div SAMPLE_RATE

\* C21: a sample is admitted only when at least 5 ms have passed since the
\* previous sample was admitted.  part_000 compares micros() with
\* SAMPLE_DELAY = 5, so a sample is admitted in every pass of loop(), one
\* millisecond (delay(1)) after the previous one.
C21_SamplesAtLeastOnePeriodApart ==
    [][(nStored > 0 /\ nStored' = nStored + 1)
           => lastSampleTime' - lastSampleTime >= SamplingPeriod]_vars

C24_PreviewCopyWithinWindowBuffer ==
    [][(firmware = "medical" /\ lastSendTime' # lastSendTime)
           => bufferIndex + 1 <= WINDOW_SIZE]_vars

\* ---- the streams of the cursor store (SpecStream) ---------------------
RECURSIVE Appended(_, _)
\* the positions in the first k entries of the log where kind was appended,
\* in order
Appended(kind, k) ==
    IF k = 0 THEN <<>>
    ELSE IF call[k] = kind THEN Append(Appended(kind, k - 1), k)
    ELSE Appended(kind, k - 1)

\* stream is the tail of all: the most recent Len(stream) samples, in order
IsMostRecent(stream, all) ==
    /\ Len(stream) <= Len(all)
    /\ stream = SubSeq(all, Len(all) - Len(stream) + 1, Len(all))

\* C23: after any sequence of appends with the default window each stream
\* holds fewer than MAX_STREAM_WINDOW (600) samples, and they are the most
\* recently appended ones in arrival order.  The trim starts above
\* MAX_STREAM_WINDOW, so a stream holds up to MAX_STREAM_WINDOW samples.
C23_StreamBelowWindowAndMostRecent ==
    /\ Len(ret.eogStream) < MAX_STREAM_WINDOW
    /\ Len(ret.gazeStream) < MAX_STREAM_WINDOW
    /\ IsMostRecent(ret.eogStream, Appended("eog", Len(call)))
    /\ IsMostRecent(ret.gazeStream, Appended("gaze", Len(call)))

\* ---- the local firmware's batches (Spec) -----------------------------------
\* readings over the whole range of the converter
AdcReadings == {0, 1, 2048, 4094, 4095}

RECURSIVE BatchAfter(_, _, _, _)
\* <<filteredValue, emgBuffer>> after loop() stored the readings rs[k..] from
\* cursor index on
BatchAfter(f, buf, index, rs) ==
    IF rs = <<>> THEN <<f, buf>>
    ELSE LET g == LowPass(f, Voltage(Head(rs)))
         IN  BatchAfter(g, [buf EXCEPT ![index + 1] = g], index + 1, Tail(rs))

\* the class classifyTremorLocally() computes when the readings rs complete
\* the batch under way
ClassAfter(rs) ==
    ClassifyFromFeatures(
        LocalExtractFeatures(BatchAfter(filteredValue, emgBuffer, bufferIndex, rs)[2]))

\* C25: the local firmware can detect tremor: some readings in 0..4095
\* complete the batch under way with class MILD or SEVERE, so that
\* currentClassification leaves NORMAL and a CLASSIFICATION message is
\* printed.  The stored values are voltages, never negative, so no batch has
\* a zero crossing and every batch is NORMAL.
C25_SomeBatchIsTremor ==
    (firmware = "local" /\ currentClassification = "NORMAL")
        => \E rs \in [1..(BATCH_SIZE - bufferIndex) -> AdcReadings] :
               ClassAfter(rs) \in {"MILD", "SEVERE"}

\* in the local firmware no state has a class other than NORMAL or a message
LocalStaysNormal ==
    firmware = "local" => currentClassification = "NORMAL" /\ serialOut = <<>>

\* ---- classifyTremorLocally over successive batches (SpecLocalBatch) --------
\* the class of the batch before batch i
PreviousClass(i) == IF i = 1 THEN "NORMAL" ELSE ret[i - 1]

RECURSIVE ChangedClasses(_)
\* the classes of those of the first k batches that differ from their
\* predecessor
ChangedClasses(k) ==
    IF k = 0 THEN <<>>
    ELSE IF ret[k] # PreviousClass(k) THEN Append(ChangedClasses(k - 1), ret[k])
    ELSE ChangedClasses(k - 1)

\* C26: after every completed batch currentClassification is the class of
\* that batch; a CLASSIFICATION message is printed for a batch exactly when
\* its class differs from the class of the batch before it (NORMAL before
\* the first), and two consecutive messages never carry the same class
C26_MessagesAreTheClassChanges ==
    firmware = "classifyTremorLocally" =>
        /\ ret # <<>> => currentClassification = ret[Len(ret)]
        /\ [i \in 1..Len(serialOut) |-> serialOut[i][1]] = ChangedClasses(Len(ret))
        /\ \A i \in 1..(Len(serialOut) - 1) : serialOut[i][1] # serialOut[i + 1][1]

\* a batch with a new class printed a message, and a later batch with the
\* same class printed none
C26_ChangePrintedRepeatSilent ==
    /\ firmware = "classifyTremorLocally"
    /\ Len(ret) = 3
    /\ ret[2] # ret[1]
    /\ ret[3] = ret[2]
    /\ Len(serialOut) >= 1
    /\ serialOut[Len(serialOut)][1] = ret[2]

\* ---- pattern and statistics bucket (SpecInsights) --------------------------
\* C27: for every severityIndex in [0,100], the boundary values 20, 40 and
\* 70 included, the pattern generateEMGInsights assigns to a record is the
\* key of severityDistribution under which the statistics count the record.
\* The pattern is chosen with > at 20, 40 and 70, the bucket with >=.
C27_PatternIsStatisticsBucket ==
    (firmware = "server" /\ pc = "returned") =>
        \A i \in 1..2 :
            ret[i].aiInsights.pattern = SeverityDistribution(ret[i].severityIndex)

\* ---- POST /api/tremor and the store (SpecStore) ----------------------------
\* the request just answered was a local classification from deviceId d
LocalClassificationFrom(d) ==
    /\ call' # <<>>
    /\ call'[1].dataType = "local_classification"
    /\ call'[1].deviceId = d
    /\ call'[1].classification \in {"NORMAL", "MILD", "MODERATE", "SEVERE"}

\* C28: a local classification from a deviceId that is not registered, with
\* a classification in {NORMAL, MILD, MODERATE, SEVERE}, creates the device,
\* stores one TremorData record that satisfies the schema, and answers with
\* success.  The device is built with userId null, which deviceSchema
\* requires, so device.save() throws and the answer is 500.
C28_UnknownDeviceIsAccepted ==
    [][\A d \in DeviceIds :
          (LocalClassificationFrom(d) /\ ~ret.devices[d].registered)
              => /\ ret'.status = 200
                 /\ ret'.devices[d].registered
                 /\ Len(ret'.tremorData) = Len(ret.tremorData) + 1
                 /\ TremorDataValid(ret'.tremorData[Len(ret'.tremorData)])]_vars

\* C29: a request answered with 400 or 500 created no TremorData record and
\* created or modified no Device record.  A record that fails validation is
\* rejected after device.save() has written the device.
C29_ErrorsLeaveStoreUnchanged ==
    [][ret'.status \in {400, 500}
          => /\ ret'.tremorData = ret.tremorData
             /\ ret'.devices = ret.devices]_vars

\* ---- the serial bridge (SpecBridge) ----------------------------------------
\* the bytes delivered so far
Delivered == SubSeq(call[1], 1, call[2])

\* the bridge after one data event at time t that carries bytes
OneChunk(bytes, t) ==
    OnData([pending |-> <<>>, buffer |-> <<>>, broadcasts |-> <<>>], bytes, t)

\* the broadcasts without the times the bridge filled in
Unstamped(sent) ==
    [i \in 1..Len(sent) |->
        [sent[i] EXCEPT !.timestamp = IF @ # <<>> /\ @[1] = "now" THEN <<"now">> ELSE @]]

\* the incomplete trailing line is kept, and every broadcast carries a
\* channels array and a timestamp
TailKeptAndBroadcastsComplete ==
    /\ ret.buffer = OneChunk(Delivered, 0).buffer
    /\ ret.pending = OneChunk(Delivered, 0).pending
    /\ \A i \in 1..Len(ret.broadcasts) :
           ret.broadcasts[i].channels /\ ret.broadcasts[i].timestamp # <<>>

\* C30: however the byte stream is split into chunks, the messages broadcast
\* are the same as if the stream had arrived in one chunk (at some time t);
\* the incomplete trailing line is kept, unparsable lines and messages
\* without channels are not broadcast, every broadcast carries channels and a
\* timestamp.  A message without a timestamp is broadcast with Date.now() of
\* the data event that completes its line, so two such messages completed in
\* different events carry times no single event gives them.
C30_BroadcastsAsInOneChunk ==
    firmware = "bridge" =>
        /\ \E t \in 0..MaxTicks : ret.broadcasts = OneChunk(Delivered, t).broadcasts
        /\ TailKeptAndBroadcastsComplete

\* C30, amended: the broadcasts are those of the one-chunk run up to the
\* times the bridge fills in, and those times are times of data events so
\* far, in order
C30_BroadcastsAsInOneChunkUpToFilledTimes ==
    firmware = "bridge" =>
        /\ Unstamped(ret.broadcasts) = Unstamped(OneChunk(Delivered, 0).broadcasts)
        /\ TailKeptAndBroadcastsComplete
        /\ \A i, j \in 1..Len(ret.broadcasts) :
               LET ti == ret.broadcasts[i].timestamp
                   tj == ret.broadcasts[j].timestamp
               IN  (i <= j /\ ti[1] = "now" /\ tj[1] = "now")
                       => 0 <= ti[2] /\ ti[2] <= tj[2] /\ tj[2] <= now

\* a stream delivered in several data events: two lines without a
\* timestamp, one of them with a two-byte character, were completed at
\* different times
C30_TwoLinesTwoEvents ==
    /\ firmware = "bridge"
    /\ call[2] = Len(call[1])
    /\ Len(ret.broadcasts) = 2
    /\ ret.broadcasts[1].timestamp = <<"now", 0>>
    /\ ret.broadcasts[2].timestamp = <<"now", 1>>
    /\ \E i \in 1..Len(call[1]) : call[1][i] = "hi"

====
